---- MODULE Spec2Model ----
(***************************************************************************)
(* depdiff: the hybrid retrieval strategy (HybridRetriever), the          *)
(* sequential orchestrator (DependencyDiffOrchestrator) and the parallel  *)
(* orchestrator (ParallelRetriever), as state machines.                   *)
(*                                                                         *)
(* Strings are sequences of string tokens (a token is a run of characters *)
(* the code never looks inside).  An Optional value is a sequence of      *)
(* length 0 (None) or 1 (the value).  A filesystem path is a sequence of  *)
(* path components.                                                        *)
(***************************************************************************)
EXTENDS Integers, Sequences, FiniteSets, TLC

\* ------------------------------------------------------------------ bounds
NumPkgs == 2          \* packages a run may name
MaxCleanups == 2      \* cleanup() calls a run may make
MaxWorkers == 1       \* the max_workers argument of ParallelRetriever
MaxPaths == 3      \* relative paths the two trees given to compare_directories may hold
MaxUrls == 3       \* entries of metadata.urls given to _download_artifact alone
MaxNameLen == 64    \* characters of a package name given to _format_header alone
MaxFetches == 2     \* fetch workers of one package of the TUI outstanding at once
MaxDiffLines == 3  \* lines of a requirements diff given to DiffParser.parse
MaxTagLines == 3   \* lines of a `git tag --list` output given to _resolve_tag alone

\* ----------------------------------------------------------------- helpers
None == <<>>
Some(x) == <<x>>
IsNone(o) == o = <<>>
Val(o) == o[1]

PkgNames == <<"django", "flask", "requests", "six", "urllib3">>
Names == {PkgNames[i] : i \in 1..NumPkgs}

OldVersionStr == "1.0"
NewVersionStr == "2.0"

\* ------------------------------------------------- models.DependencyChange
Update(n) == [name |-> n, old_version |-> Some(OldVersionStr), new_version |-> Some(NewVersionStr)]
Addition(n) == [name |-> n, old_version |-> None, new_version |-> Some(NewVersionStr)]
Removal(n) == [name |-> n, old_version |-> Some(OldVersionStr), new_version |-> None]

is_addition(c) == IsNone(c.old_version) /\ ~IsNone(c.new_version)
is_removal(c) == ~IsNone(c.old_version) /\ IsNone(c.new_version)
is_update(c) == ~IsNone(c.old_version) /\ ~IsNone(c.new_version)

\* The change lists a run may be given: the first k package names in order,
\* each as an update, an addition or a removal (names pairwise distinct, as
\* DiffParser.parse returns them).
ChangeLists ==
  UNION { { cs \in [1..k -> UNION {{Update(n), Addition(n), Removal(n)} : n \in Names}] :
              \A i \in 1..k : cs[i].name = PkgNames[i] } : k \in 0..NumPkgs }

\* ---------------------------------------------------------------- exceptions
Exc(type, msg) == [type |-> type, msg |-> msg]

HTTPError == Exc("HTTPError", <<"404 Client Error">>)
ConnectionError == Exc("ConnectionError", <<"connection refused">>)
CalledProcessError == Exc("CalledProcessError", <<"Command 'git tag --list' returned non-zero exit status">>)
GitCloneError == Exc("CalledProcessError", <<"Command 'git clone' returned non-zero exit status">>)
GitDiffError == Exc("CalledProcessError", <<"Command 'git diff' returned non-zero exit status">>)
FileNotFoundError == Exc("FileNotFoundError", <<"No such file or directory">>)
OSError == Exc("OSError", <<"No space left on device">>)
ReadError == Exc("ReadError", <<"not a gzip file">>)
TimeoutError == Exc("TimeoutError", <<>>)
TypeError == Exc("TypeError", <<"__init__() got an unexpected keyword argument 'temp_dir_tracker'">>)
NotUpdateError == Exc("ValueError", <<"Artifact fallback only supports version updates">>)
NoArtifactError(n, v) == Exc("ValueError", <<"No suitable artifact found for ", n, " ", v>>)

\* ------------------------------------------------------- registry metadata
\* PackageMetadata: info.url (a string, possibly empty) and urls (a list).
GithubPrefix == "https://github.com/"
GitlabPrefix == "https://gitlab.com/"
BitbucketPrefix == "https://bitbucket.org/"

HomepageUrls ==
  { <<>>,
    <<GithubPrefix, "org/repo">>,
    <<GithubPrefix, "org/repo", "/">>,
    <<GithubPrefix, "org/repo", ".git">>,
    <<"https://example.org/", "docs">> }

SdistUrl == <<"https://files.pythonhosted.org/pkg", ".tar.gz">>
WheelUrl == <<"https://files.pythonhosted.org/pkg-py3-none-any", ".whl">>
EggUrl == <<"https://files.pythonhosted.org/pkg", ".egg">>

ArtifactUrlLists ==
  { <<>>, <<SdistUrl>>, <<WheelUrl>>, <<EggUrl>>, <<WheelUrl, SdistUrl>>, <<EggUrl, WheelUrl>> }

\* What MetadataClient.get may do: raise, or return a PackageMetadata.
MetadataResults ==
  { [ok |-> FALSE, exc |-> HTTPError, url |-> <<>>, urls |-> <<>>] }
    \cup { [ok |-> TRUE, exc |-> HTTPError, url |-> u, urls |-> us] :
             u \in HomepageUrls, us \in ArtifactUrlLists }

StartsWith(s, prefix) == Len(s) > 0 /\ s[1] = prefix
EndsWith(s, suffix) == Len(s) > 0 /\ s[Len(s)] = suffix

RECURSIVE RStrip(_, _)
RStrip(s, ch) ==
  IF Len(s) > 0 /\ s[Len(s)] = ch THEN RStrip(SubSeq(s, 1, Len(s) - 1), ch) ELSE s

GitPlatforms == <<GithubPrefix, GitlabPrefix, BitbucketPrefix>>

\* HybridRetriever._extract_git_url
ExtractGitUrl(url) ==
  IF url = <<>> THEN None
  ELSE IF \E i \in 1..Len(GitPlatforms) : StartsWith(url, GitPlatforms[i])
       THEN Some(IF EndsWith(url, ".git") THEN url ELSE RStrip(url, "/") \o <<".git">>)
       ELSE None

\* ----------------------------------------------------------- tag resolution
TagUniverse == {OldVersionStr, "v" \o OldVersionStr, NewVersionStr, "v" \o NewVersionStr}

\* stdout of `git tag --list`: a list of lines
TagListings == {<<>>} \cup {<<t>> : t \in TagUniverse}
                 \cup {<<s, t>> : s \in TagUniverse, t \in TagUniverse}

\* set(result.stdout.strip().split("\n")): the empty output splits to [""]
TagSet(lines) == IF lines = <<>> THEN {""} ELSE {lines[i] : i \in 1..Len(lines)}

\* ResolveTag that tries the "v" prefix before the exact match
ResolveTagPrefixFirst(tags, version) ==
  IF ("v" \o version) \in tags THEN Some("v" \o version)
  ELSE IF version \in tags THEN Some(version)
  ELSE None

\* the body of the try block of HybridRetriever._resolve_tag
ResolveTag(tags, version) ==
  IF version \in tags THEN Some(version)
  ELSE IF ("v" \o version) \in tags THEN Some("v" \o version)
  ELSE None

\* What `git tag --list` may do: exit non-zero (CalledProcessError), fail to
\* start (FileNotFoundError, not caught by _resolve_tag), or print a listing.
TagListResults ==
  { [ok |-> FALSE, exc |-> e, lines |-> <<>>] : e \in {CalledProcessError, FileNotFoundError} }
    \cup { [ok |-> TRUE, exc |-> CalledProcessError, lines |-> l] : l \in TagListings }

\* ------------------------------------------------------------- diff texts
GitDiffTexts(n) == { <<>>, <<"diff --git a/", n, " b/", n, "\n">> }
CompareTexts(n) == { <<>>, <<"--- a/", n, "\n", "+++ b/", n>> }

\* ------------------------------------------------------- artifact selection
RECURSIVE ScanUrlsFirstMatch(_, _, _)
\* ScanUrls that also stops at the first .whl
ScanUrlsFirstMatch(urls, i, wheel) ==
  IF i > Len(urls) THEN <<None, wheel>>
  ELSE IF EndsWith(urls[i], ".tar.gz") THEN <<Some(urls[i]), wheel>>
  ELSE IF EndsWith(urls[i], ".whl") THEN <<None, Some(urls[i])>>
  ELSE ScanUrlsFirstMatch(urls, i + 1, wheel)

RECURSIVE ScanUrls(_, _, _)
\* the for loop of _download_artifact over metadata.urls: <<sdist_url, wheel_url>>
ScanUrls(urls, i, wheel) ==
  IF i > Len(urls) THEN <<None, wheel>>
  ELSE IF EndsWith(urls[i], ".tar.gz") THEN <<Some(urls[i]), wheel>>
  ELSE IF EndsWith(urls[i], ".whl") /\ IsNone(wheel) THEN ScanUrls(urls, i + 1, Some(urls[i]))
  ELSE ScanUrls(urls, i + 1, wheel)

\* download_url = sdist_url or wheel_url
ChooseArtifact(urls) ==
  LET r == ScanUrls(urls, 1, None) IN IF ~IsNone(r[1]) THEN r[1] ELSE r[2]

\* numbers of top-level directories extract_path.iterdir() may report
TopDirCounts == {0, 1, 2}

\* ------------------------------------------------------------------- state
VARIABLES
  mode,          \* which front end drives the run: "direct", "orchestrator",
                 \* "parallel", "tui"; "function" when one function is applied alone
  changes,       \* the list of DependencyChange the run is about
  maxWorkers,    \* the max_workers argument of ParallelRetriever(...) (Optional)
  ctorTakesTracker, \* whether HybridRetriever(comparator=, temp_dir_tracker=) constructs
  disk,          \* the paths that exist on the filesystem
  tempDirs,      \* HybridRetriever._temp_dirs of each retriever instance
  pc,            \* position of the get_diff call for each package
  loc,           \* local variables of that call
  outcome,       \* what the call returned or raised (Optional)
  gitRes,        \* what _try_git_strategy returned to get_diff (Optional of Optional)
  hist,          \* the phases the call has entered, in order
  cmpCall,       \* the compare_directories call it made (Optional): the extraction
                 \* directories its two arguments lie in, and its output
  cleanupLog,    \* one record per cleanup() call made so far
  lastCall,      \* the last operation a client started: "none", "cleanup", or another
  orchPc, orchIdx, orchDiffs, orchStderr, orchResult,
  procPc, subIdx, colIdx, queue, parDiffs, completed, timedOut, parResult,
  regAtTimeout,  \* how many directories a task had registered when the
                 \* collector stopped waiting for it
  poolShutdown,  \* ThreadPoolExecutor.shutdown has been called
  registry,      \* ParallelRetriever._temp_dirs
  clPc,          \* position of the ParallelRetriever.cleanup call
  tuiPc,         \* DepDiffApp: "idle", "mounted", "quitting", "exited"
  tuiStatus,     \* DepDiffApp.statuses
  tuiDiffs,      \* DepDiffApp.diffs
  tuiWorkers,    \* per package, the fetch workers started and not yet handled
  callee,        \* the function applied alone ("none" under a front end)
  args,          \* its arguments
  result         \* what it returned or raised (Optional)

tuiVars == <<tuiPc, tuiStatus, tuiDiffs, tuiWorkers>>
fnVars == <<callee, args, result>>
envVars == <<mode, changes, ctorTakesTracker, maxWorkers, tuiVars, fnVars>>
callVars == <<pc, loc, outcome, gitRes, hist, cmpCall>>
fsVars == <<disk, tempDirs, registry>>
orchVars == <<orchPc, orchIdx, orchDiffs, orchStderr, orchResult>>
procVars == <<procPc, subIdx, colIdx, queue, parDiffs, completed, timedOut, parResult,
              regAtTimeout>>
poolVars == <<poolShutdown, clPc>>
logVars == <<cleanupLog, lastCall>>
vars == <<envVars, callVars, fsVars, logVars, orchVars, procVars, poolVars>>

EmptyLoc ==
  [git_url |-> None, repo_path |-> None, old_tag |-> None, new_tag |-> None,
   git_diff |-> None, exc |-> None, caught |-> None, which |-> "old",
   download_url |-> None,
   extract_path |-> None, old_dir |-> None, new_dir |-> None]

\* the retriever instances: the orchestrator's (also the direct client's) one,
\* and one per task of the parallel orchestrator
Instances == {"shared"} \cup Names
InstOf(n) == IF mode \in {"parallel", "tui"} THEN n ELSE "shared"

ChangeOf(n) == CHOOSE c \in {changes[i] : i \in 1..Len(changes)} : c.name = n
Listed == {changes[i].name : i \in 1..Len(changes)}

EmptyMap == [x \in {} |-> <<>>]
Put(m, k, v) == [x \in (DOMAIN m) \cup {k} |-> IF x = k THEN v ELSE m[x]]

\* the state after construction of the retrievers, orchestrators and the app
Constructed ==
  /\ disk = {}
  /\ tempDirs = [i \in Instances |-> {}]
  /\ pc = [n \in Names |-> "idle"]
  /\ loc = [n \in Names |-> EmptyLoc]
  /\ outcome = [n \in Names |-> None]
  /\ gitRes = [n \in Names |-> None]
  /\ hist = [n \in Names |-> <<>>]
  /\ cmpCall = [n \in Names |-> None]
  /\ cleanupLog = <<>> /\ lastCall = "none"
  /\ orchPc = "idle" /\ orchIdx = 1 /\ orchDiffs = EmptyMap
  /\ orchStderr = <<>> /\ orchResult = None
  /\ procPc = "idle" /\ subIdx = 1 /\ colIdx = 1 /\ queue = <<>>
  /\ parDiffs = EmptyMap /\ completed = 0 /\ timedOut = {} /\ parResult = None
  /\ regAtTimeout = [n \in Names |-> 0]
  /\ poolShutdown = FALSE /\ registry = {} /\ clPc = "idle"
  /\ tuiPc = "idle" /\ tuiDiffs = EmptyMap
  /\ tuiStatus = [n \in Listed |-> "pending"]
  /\ tuiWorkers = [n \in Listed |-> 0]

NoCall == callee = "none" /\ args = <<>> /\ result = None

Init ==
  /\ mode \in {"direct", "orchestrator", "parallel"}
  /\ changes \in ChangeLists
  /\ ctorTakesTracker \in (IF mode = "parallel" THEN BOOLEAN ELSE {FALSE})
  /\ maxWorkers = Some(MaxWorkers)
  /\ Constructed
  /\ NoCall

\* ------------------------------------------------ HybridRetriever.get_diff
driverVars == <<envVars, logVars, orchVars, procVars, poolVars>>

Ret(v) == [kind |-> "return", value |-> v, exc |-> Exc("", <<>>)]
Raised(e) == [kind |-> "raise", value |-> <<>>, exc |-> e]

Active(n) == pc[n] \notin {"idle", "queued", "returned", "raised", "done"}
Finished(n) == pc[n] \in {"returned", "raised"}

RepoDir(n) == <<n, "depdiff_git_">>
ArtDir(n, which) == <<n, "depdiff_artifact_", which>>

VersionOf(c, which) == IF which = "old" THEN Val(c.old_version) ELSE Val(c.new_version)

\* track_temp_dir that adds nothing to the registry
track_temp_dir_dropping(reg, path) == reg

\* ParallelRetriever.track_temp_dir: with self._lock: self._temp_dirs.add(path)
track_temp_dir(reg, path) == reg \cup {path}

\* a retriever records a directory it created: self._temp_dirs.add(d), or,
\* for a retriever constructed with a tracker, the tracker's track_temp_dir(d)
RecordTempDir(n, d) ==
  IF ctorTakesTracker
  THEN registry' = track_temp_dir(registry, d) /\ UNCHANGED tempDirs
  ELSE tempDirs' = [tempDirs EXCEPT ![InstOf(n)] = @ \cup {d}] /\ UNCHANGED registry

\* the call moves to position p with locals l
Step(n, p, l) ==
  /\ pc' = [pc EXCEPT ![n] = p]
  /\ loc' = [loc EXCEPT ![n] = l]
  /\ UNCHANGED <<outcome, gitRes>>

\* the call returns v to its caller; its frame is gone
Return(n, v) ==
  /\ pc' = [pc EXCEPT ![n] = "returned"]
  /\ outcome' = [outcome EXCEPT ![n] = Some(Ret(v))]
  /\ loc' = [loc EXCEPT ![n] = EmptyLoc]
  /\ UNCHANGED gitRes

\* the call raises e to its caller; its frame is gone
Raise(n, e) ==
  /\ pc' = [pc EXCEPT ![n] = "raised"]
  /\ outcome' = [outcome EXCEPT ![n] = Some(Raised(e))]
  /\ loc' = [loc EXCEPT ![n] = EmptyLoc]
  /\ UNCHANGED gitRes

\* an exception inside the try block of _try_git_strategy reaches its handler
GitFail(n, e) == Step(n, "git_except", [loc[n] EXCEPT !.exc = Some(e)])

\* _try_git_strategy returns None to get_diff; its locals are gone (caught
\* remembers the exception its handler swallowed, if any, until
\* _artifact_fallback takes its first step)
GitNone(n) ==
  /\ pc' = [pc EXCEPT ![n] = "git_ret"]
  /\ loc' = [loc EXCEPT ![n] = [EmptyLoc EXCEPT !.caught = loc[n].exc]]
  /\ gitRes' = [gitRes EXCEPT ![n] = Some(None)]
  /\ UNCHANGED outcome

\* GitYield that hands an empty diff on as "no result" (`return diff or None`)
GitYieldEmptyAsNone(n, text) ==
  /\ pc' = [pc EXCEPT ![n] = "git_ret"]
  /\ loc' = [loc EXCEPT ![n] = [EmptyLoc EXCEPT !.git_diff = IF text = <<>> THEN None ELSE Some(text)]]
  /\ gitRes' = [gitRes EXCEPT ![n] = IF text = <<>> THEN Some(None) ELSE Some(Some(text))]
  /\ UNCHANGED outcome

\* _try_git_strategy returns the diff to get_diff; its locals are gone
GitYield(n, text) ==
  /\ pc' = [pc EXCEPT ![n] = "git_ret"]
  /\ loc' = [loc EXCEPT ![n] = [EmptyLoc EXCEPT !.git_diff = Some(text)]]
  /\ gitRes' = [gitRes EXCEPT ![n] = Some(Some(text))]
  /\ UNCHANGED outcome

\* TryGitEntry without the is_update test
TryGitEntryUntested(n) ==
  /\ pc[n] = "git_entry"
  /\ hist' = [hist EXCEPT ![n] = Append(@, "vcs")]
  /\ Step(n, "git_meta", loc[n])
  /\ UNCHANGED <<cmpCall, fsVars, driverVars>>

\* get_diff calls _try_git_strategy; the is_update test
TryGitEntry(n) ==
  /\ pc[n] = "git_entry"
  /\ hist' = [hist EXCEPT ![n] = Append(@, "vcs")]
  /\ IF ~is_update(ChangeOf(n))
     THEN GitNone(n)
     ELSE Step(n, "git_meta", loc[n])
  /\ UNCHANGED <<cmpCall, fsVars, driverVars>>

\* _fetch_pypi_metadata(name, new_version) and _extract_git_url
GitFetchMetadata(n) ==
  /\ pc[n] = "git_meta"
  /\ \E r \in MetadataResults :
       IF ~r.ok THEN GitFail(n, r.exc)
       ELSE LET git_url == ExtractGitUrl(r.url) IN
            IF IsNone(git_url) THEN GitNone(n)
            ELSE Step(n, "git_mkdtemp", [loc[n] EXCEPT !.git_url = git_url])
  /\ UNCHANGED <<hist, cmpCall, fsVars, driverVars>>

\* _clone_repo: mkdtemp and self._temp_dirs.add
GitMkdtemp(n) ==
  /\ pc[n] = "git_mkdtemp"
  /\ \E ok \in BOOLEAN :
       IF ok
       THEN /\ disk' = disk \cup {RepoDir(n)}
            /\ RecordTempDir(n, RepoDir(n))
            /\ Step(n, "git_clone", [loc[n] EXCEPT !.repo_path = Some(RepoDir(n))])
       ELSE GitFail(n, OSError) /\ UNCHANGED fsVars
  /\ UNCHANGED <<hist, cmpCall, driverVars>>

\* _clone_repo: git clone --filter=blob:none
GitClone(n) ==
  /\ pc[n] = "git_clone"
  /\ \E e \in {None, Some(GitCloneError), Some(FileNotFoundError)} :
       IF IsNone(e)
       THEN Step(n, "git_old_tag", loc[n])
       ELSE GitFail(n, Val(e))
  /\ UNCHANGED <<hist, cmpCall, fsVars, driverVars>>

\* HybridRetriever._resolve_tag on what `git tag --list` did
resolve_tag(r, version) ==
  IF r.ok THEN [raised |-> FALSE, exc |-> r.exc, tag |-> ResolveTag(TagSet(r.lines), version)]
  ELSE IF r.exc = CalledProcessError THEN [raised |-> FALSE, exc |-> r.exc, tag |-> None]
  ELSE [raised |-> TRUE, exc |-> r.exc, tag |-> None]

\* old_tag = self._resolve_tag(repo_path, change.old_version)
GitResolveOld(n) ==
  /\ pc[n] = "git_old_tag"
  /\ \E r \in TagListResults :
       LET t == resolve_tag(r, VersionOf(ChangeOf(n), "old")) IN
       IF t.raised THEN GitFail(n, t.exc)
       ELSE IF IsNone(t.tag) THEN GitNone(n)
       ELSE Step(n, "git_new_tag", [loc[n] EXCEPT !.old_tag = t.tag])
  /\ UNCHANGED <<hist, cmpCall, fsVars, driverVars>>

\* new_tag = self._resolve_tag(repo_path, change.new_version)
GitResolveNew(n) ==
  /\ pc[n] = "git_new_tag"
  /\ \E r \in TagListResults :
       LET t == resolve_tag(r, VersionOf(ChangeOf(n), "new")) IN
       IF t.raised THEN GitFail(n, t.exc)
       ELSE IF IsNone(t.tag) THEN GitNone(n)
       ELSE Step(n, "git_diff", [loc[n] EXCEPT !.new_tag = t.tag])
  /\ UNCHANGED <<hist, cmpCall, fsVars, driverVars>>

\* diff = self._git_diff(repo_path, old_tag, new_tag); return diff
GitDiff(n) ==
  /\ pc[n] = "git_diff"
  /\ \/ GitFail(n, GitDiffError)
     \/ \E text \in GitDiffTexts(n) : GitYield(n, text)
  /\ UNCHANGED <<hist, cmpCall, fsVars, driverVars>>

\* GitExcept without the handler: the exception leaves _try_git_strategy
GitExceptReraising(n) ==
  /\ pc[n] = "git_except"
  /\ Raise(n, Val(loc[n].exc))
  /\ UNCHANGED <<hist, cmpCall, fsVars, driverVars>>

\* GitExcept with a handler that lets the failure of `git diff` through
GitExceptDiffPropagates(n) ==
  /\ pc[n] = "git_except"
  /\ IF loc[n].exc = Some(GitDiffError) THEN Raise(n, GitDiffError) ELSE GitNone(n)
  /\ UNCHANGED <<hist, cmpCall, fsVars, driverVars>>

\* except Exception: return None
GitExcept(n) ==
  /\ pc[n] = "git_except"
  /\ GitNone(n)
  /\ UNCHANGED <<hist, cmpCall, fsVars, driverVars>>

\* GetDiffCheck testing truthiness (`if git_diff:`) instead of `is not None`
GetDiffCheckTruthy(n) ==
  /\ pc[n] = "git_ret"
  /\ IF ~IsNone(loc[n].git_diff) /\ Val(loc[n].git_diff) # <<>>
     THEN Return(n, Val(loc[n].git_diff))
     ELSE Step(n, "art_entry", loc[n])
  /\ UNCHANGED <<hist, cmpCall, fsVars, driverVars>>

\* get_diff: if git_diff is not None: return git_diff; else _artifact_fallback
GetDiffCheck(n) ==
  /\ pc[n] = "git_ret"
  /\ IF ~IsNone(loc[n].git_diff)
     THEN Return(n, Val(loc[n].git_diff))
     ELSE Step(n, "art_entry", loc[n])
  /\ UNCHANGED <<hist, cmpCall, fsVars, driverVars>>

\* ArtEntry that silently yields an empty diff for a change that is no update
ArtEntrySilent(n) ==
  /\ pc[n] = "art_entry"
  /\ hist' = [hist EXCEPT ![n] = Append(@, "artifact")]
  /\ IF ~is_update(ChangeOf(n))
     THEN Return(n, <<>>)
     ELSE Step(n, "art_meta", [EmptyLoc EXCEPT !.which = "old"])
  /\ UNCHANGED <<cmpCall, fsVars, driverVars>>

\* _artifact_fallback: the is_update test
ArtEntry(n) ==
  /\ pc[n] = "art_entry"
  /\ hist' = [hist EXCEPT ![n] = Append(@, "artifact")]
  /\ IF ~is_update(ChangeOf(n))
     THEN Raise(n, NotUpdateError)
     ELSE Step(n, "art_meta", [EmptyLoc EXCEPT !.which = "old"])
  /\ UNCHANGED <<cmpCall, fsVars, driverVars>>

\* _download_artifact: metadata lookup and the choice of the download URL
ArtFetchMetadata(n) ==
  /\ pc[n] = "art_meta"
  /\ hist' = [hist EXCEPT ![n] = Append(@, "fetch_" \o loc[n].which)]
  /\ \E r \in MetadataResults :
       IF ~r.ok THEN Raise(n, r.exc)
       ELSE LET download_url == ChooseArtifact(r.urls) IN
            IF IsNone(download_url)
            THEN Raise(n, NoArtifactError(n, VersionOf(ChangeOf(n), loc[n].which)))
            ELSE Step(n, "art_mkdtemp", [loc[n] EXCEPT !.download_url = download_url])
  /\ UNCHANGED <<cmpCall, fsVars, driverVars>>

\* ArtMkdtemp that creates the directory and leaves it untracked
ArtMkdtempUntracked(n) ==
  /\ pc[n] = "art_mkdtemp"
  /\ \E ok \in BOOLEAN :
       IF ok
       THEN LET d == ArtDir(n, loc[n].which) IN
            /\ disk' = disk \cup {d}
            /\ UNCHANGED <<tempDirs, registry>>
            /\ Step(n, "art_download", [loc[n] EXCEPT !.extract_path = Some(d)])
       ELSE Raise(n, OSError) /\ UNCHANGED fsVars
  /\ UNCHANGED <<hist, cmpCall, driverVars>>

\* _download_artifact: mkdtemp and self._temp_dirs.add
ArtMkdtemp(n) ==
  /\ pc[n] = "art_mkdtemp"
  /\ \E ok \in BOOLEAN :
       IF ok
       THEN LET d == ArtDir(n, loc[n].which) IN
            /\ disk' = disk \cup {d}
            /\ RecordTempDir(n, d)
            /\ Step(n, "art_download", [loc[n] EXCEPT !.extract_path = Some(d)])
       ELSE Raise(n, OSError) /\ UNCHANGED fsVars
  /\ UNCHANGED <<hist, cmpCall, driverVars>>

\* ArtDownload that swallows a failed download and yields an empty diff
ArtDownloadSwallowing(n) ==
  /\ pc[n] = "art_download"
  /\ \E e \in {None, Some(ConnectionError)} :
       IF IsNone(e)
       THEN /\ disk' = disk \cup {Val(loc[n].extract_path) \o <<"artifact">>}
            /\ Step(n, "art_extract", loc[n])
       ELSE Return(n, <<>>) /\ UNCHANGED disk
  /\ UNCHANGED <<hist, cmpCall, tempDirs, registry, driverVars>>

\* _download_artifact: requests.get, raise_for_status, write_bytes
ArtDownload(n) ==
  /\ pc[n] = "art_download"
  /\ \E e \in {None, Some(ConnectionError)} :
       IF IsNone(e)
       THEN /\ disk' = disk \cup {Val(loc[n].extract_path) \o <<"artifact">>}
            /\ Step(n, "art_extract", loc[n])
       ELSE Raise(n, Val(e)) /\ UNCHANGED disk
  /\ UNCHANGED <<hist, cmpCall, tempDirs, registry, driverVars>>

\* the extracted tree under d (its entries are not modelled one by one)
Extracted(d) == {d \o <<"tree">>}

\* the extraction directory a package root lies in
ExtractDirOf(root) == SubSeq(root, 1, Len(ArtDir("", "")))

\* the root _download_artifact returns for k top-level directories
PackageRoot(d, k) == IF k = 1 THEN d \o <<"dir1">> ELSE d

\* _download_artifact: extract, unlink the archive, pick the package root
ArtExtract(n) ==
  /\ pc[n] = "art_extract"
  /\ LET d == Val(loc[n].extract_path) IN
     \/ Raise(n, ReadError) /\ UNCHANGED disk
     \/ \E k \in TopDirCounts :
          /\ disk' = (disk \ {d \o <<"artifact">>}) \cup Extracted(d)
          /\ IF loc[n].which = "old"
             THEN Step(n, "art_meta", [loc[n] EXCEPT !.old_dir = Some(PackageRoot(d, k)),
                                                     !.which = "new",
                                                     !.download_url = None,
                                                     !.extract_path = None])
             ELSE Step(n, "art_compare", [loc[n] EXCEPT !.new_dir = Some(PackageRoot(d, k)),
                                                        !.download_url = None,
                                                        !.extract_path = None])
  /\ UNCHANGED <<hist, cmpCall, tempDirs, registry, driverVars>>

\* Compare with the two trees passed in the wrong order
CompareSwapped(n) ==
  /\ pc[n] = "art_compare"
  /\ hist' = [hist EXCEPT ![n] = Append(@, "compare")]
  /\ \/ Raise(n, OSError) /\ UNCHANGED cmpCall
     \/ \E text \in CompareTexts(n) :
          /\ cmpCall' = [cmpCall EXCEPT ![n] =
                           Some([old |-> ExtractDirOf(Val(loc[n].new_dir)),
                                 new |-> ExtractDirOf(Val(loc[n].old_dir)),
                                 out |-> text])]
          /\ Return(n, text)
  /\ UNCHANGED <<fsVars, driverVars>>

\* diff = self.comparator.compare_directories(old_dir, new_dir); return diff
Compare(n) ==
  /\ pc[n] = "art_compare"
  /\ hist' = [hist EXCEPT ![n] = Append(@, "compare")]
  /\ \/ Raise(n, OSError) /\ UNCHANGED cmpCall
     \/ \E text \in CompareTexts(n) :
          /\ cmpCall' = [cmpCall EXCEPT ![n] =
                           Some([old |-> ExtractDirOf(Val(loc[n].old_dir)),
                                 new |-> ExtractDirOf(Val(loc[n].new_dir)),
                                 out |-> text])]
          /\ Return(n, text)
  /\ UNCHANGED <<fsVars, driverVars>>

GetDiffStep(n) ==
  \/ TryGitEntry(n) \/ GitFetchMetadata(n) \/ GitMkdtemp(n) \/ GitClone(n)
  \/ GitResolveOld(n) \/ GitResolveNew(n) \/ GitDiff(n) \/ GitExcept(n)
  \/ GetDiffCheck(n)
  \/ ArtEntry(n) \/ ArtFetchMetadata(n) \/ ArtMkdtemp(n) \/ ArtDownload(n)
  \/ ArtExtract(n) \/ Compare(n)

\* ------------------------------------------------------------------ cleanup
IsPrefix(d, p) == Len(d) <= Len(p) /\ SubSeq(p, 1, Len(d)) = d

\* shutil.rmtree over every directory of dirs
RmTrees(fs, dirs) == {p \in fs : ~\E d \in dirs : IsPrefix(d, p)}

\* the sets of directories whose rmtree may fail in one pass over tracked:
\* none of them, or any one of those that exist
FailureSets(tracked) == {{}} \cup {{d} : d \in tracked \cap disk}

LogEntry(who, tracked, failing, left) ==
  [who |-> who,
   deleted |-> Cardinality((tracked \cap disk) \ failing),
   left |-> left,
   second |-> lastCall = "cleanup",
   inflight |-> Cardinality({n \in Names : Active(n)}),
   failed |-> failing,
   owners |-> {n \in Names : \E d \in tracked \cap disk : d[1] = n}]

\* HybridCleanup without the final self._temp_dirs.clear()
HybridCleanupNoClear(i) ==
  \E failing \in FailureSets(tempDirs[i]) :
    /\ disk' = RmTrees(disk, tempDirs[i] \ failing)
    /\ tempDirs' = tempDirs
    /\ cleanupLog' = Append(cleanupLog, LogEntry("hybrid", tempDirs[i], failing, tempDirs'[i]))
    /\ lastCall' = "cleanup"

\* HybridRetriever.cleanup: rmtree every tracked directory that exists,
\* swallowing errors, then clear the set
HybridCleanup(i) ==
  \E failing \in FailureSets(tempDirs[i]) :
    /\ disk' = RmTrees(disk, tempDirs[i] \ failing)
    /\ tempDirs' = [tempDirs EXCEPT ![i] = {}]
    /\ cleanupLog' = Append(cleanupLog, LogEntry("hybrid", tempDirs[i], failing, tempDirs'[i]))
    /\ lastCall' = "cleanup"

\* a client of HybridRetriever, or DependencyDiffOrchestrator.cleanup, cleans up
Cleanup ==
  /\ mode \in {"direct", "orchestrator"}
  /\ \A n \in Names : ~Active(n)
  /\ mode = "orchestrator" => orchPc \in {"idle", "returned"}
  /\ Len(cleanupLog) < MaxCleanups
  /\ HybridCleanup("shared")
  /\ UNCHANGED <<registry, envVars, callVars, orchVars, procVars, poolVars>>

\* ------------------------------------------------------------ direct client
\* a client calls retriever.get_diff(change) on its HybridRetriever, for the
\* changes of its list in turn; of the calls before it, whose results the
\* client has taken, only disk and self._temp_dirs keep a trace
DirectCall(n) ==
  /\ mode = "direct"
  /\ \E i \in 1..Len(changes) :
       /\ changes[i].name = n
       /\ \A j \in 1..(i - 1) : pc[changes[j].name] # "idle"
  /\ pc[n] = "idle"
  /\ \A m \in Names : ~Active(m)
  /\ pc' = [m \in Names |-> IF m = n THEN "git_entry"
                             ELSE IF Finished(m) THEN "done" ELSE pc[m]]
  /\ outcome' = [m \in Names |-> None]
  /\ gitRes' = [m \in Names |-> None]
  /\ hist' = [m \in Names |-> <<>>]
  /\ cmpCall' = [m \in Names |-> None]
  /\ lastCall' = "get_diff"
  /\ UNCHANGED <<loc, fsVars, envVars, cleanupLog, orchVars, procVars, poolVars>>

\* ------------------------------------------------- reporter.ReportGenerator
UpperNames == <<"DJANGO", "FLASK", "REQUESTS", "SIX", "URLLIB3">>
Upper(n) == UpperNames[CHOOSE i \in 1..Len(PkgNames) : PkgNames[i] = n]

Separator == "================"

\* ReportGenerator._format_header
FormatHeader(n) ==
  <<Separator, "\n", "==", " DIFF FOR PACKAGE: ", Upper(n), " ", "==", "\n", Separator>>

\* sorted(diffs.keys()): PkgNames is in ascending order
RECURSIVE SortedFrom(_, _)
SortedFrom(keys, i) ==
  IF i > Len(PkgNames) THEN <<>>
  ELSE (IF PkgNames[i] \in keys THEN <<PkgNames[i]>> ELSE <<>>) \o SortedFrom(keys, i + 1)

RECURSIVE Join(_, _)
\* sep.join(parts)
Join(parts, sep) ==
  IF parts = <<>> THEN <<>>
  ELSE IF Len(parts) = 1 THEN parts[1]
  ELSE parts[1] \o <<sep>> \o Join(Tail(parts), sep)

RECURSIVE Sections(_, _)
\* the report_sections list built by the loop of generate_report
Sections(diffs, names) ==
  IF names = <<>> THEN <<>>
  ELSE <<FormatHeader(Head(names)), RStrip(diffs[Head(names)], "\n"), <<>>>>
         \o Sections(diffs, Tail(names))

\* ReportGenerator.generate_report
GenerateReport(diffs) ==
  IF DOMAIN diffs = {} THEN <<>>
  ELSE LET secs == Sections(diffs, SortedFrom(DOMAIN diffs, 1)) IN
       Join(IF Len(secs) > 0 /\ secs[Len(secs)] = <<>> THEN SubSeq(secs, 1, Len(secs) - 1) ELSE secs,
            "\n")

NoChangesMsg == <<"No dependency changes detected.">>

\* ------------------------------------------------ DependencyDiffOrchestrator
\* process_requirements_diff: parse, the early return
OrchProcess ==
  /\ mode = "orchestrator"
  /\ orchPc = "idle"
  /\ lastCall' = "process"
  /\ IF changes = <<>>
     THEN orchPc' = "returned" /\ orchResult' = Some(NoChangesMsg)
     ELSE orchPc' = "loop" /\ UNCHANGED orchResult
  /\ UNCHANGED <<orchIdx, orchDiffs, orchStderr, envVars, callVars, fsVars,
                 cleanupLog, procVars, poolVars>>

\* the loop: if not change.is_update: continue
OrchSkip ==
  /\ orchPc = "loop" /\ orchIdx <= Len(changes)
  /\ ~is_update(changes[orchIdx])
  /\ orchIdx' = orchIdx + 1
  /\ UNCHANGED <<orchPc, orchDiffs, orchStderr, orchResult, envVars, callVars,
                 fsVars, logVars, procVars, poolVars>>

\* OrchCall without the is_update test before it
OrchCallAnyChange ==
  /\ orchPc = "loop" /\ orchIdx <= Len(changes)
  /\ pc[changes[orchIdx].name] = "idle"
  /\ pc' = [pc EXCEPT ![changes[orchIdx].name] = "git_entry"]
  /\ UNCHANGED <<loc, outcome, gitRes, hist, cmpCall, orchVars, envVars, fsVars, logVars,
                 procVars, poolVars>>

\* the loop: self.retriever.get_diff(change) is called
OrchCall ==
  /\ orchPc = "loop" /\ orchIdx <= Len(changes)
  /\ is_update(changes[orchIdx])
  /\ pc[changes[orchIdx].name] = "idle"
  /\ pc' = [pc EXCEPT ![changes[orchIdx].name] = "git_entry"]
  /\ UNCHANGED <<loc, outcome, gitRes, hist, cmpCall, orchVars, envVars, fsVars, logVars,
                 procVars, poolVars>>

\* the loop: diffs[change.name] = diff
OrchStore ==
  /\ orchPc = "loop" /\ orchIdx <= Len(changes)
  /\ LET n == changes[orchIdx].name IN
     /\ pc[n] = "returned"
     /\ orchDiffs' = Put(orchDiffs, n, Val(outcome[n]).value)
     /\ pc' = [pc EXCEPT ![n] = "done"]
  /\ orchIdx' = orchIdx + 1
  /\ UNCHANGED <<loc, outcome, gitRes, hist, cmpCall, orchPc, orchStderr, orchResult,
                 envVars, fsVars, logVars, procVars, poolVars>>

\* the loop: except Exception as e: print to stderr; continue
OrchExcept ==
  /\ orchPc = "loop" /\ orchIdx <= Len(changes)
  /\ LET n == changes[orchIdx].name IN
     /\ pc[n] = "raised"
     /\ orchStderr' = Append(orchStderr, <<"Error processing ", n, ": ">> \o Val(outcome[n]).exc.msg)
     /\ pc' = [pc EXCEPT ![n] = "done"]
  /\ orchIdx' = orchIdx + 1
  /\ UNCHANGED <<loc, outcome, gitRes, hist, cmpCall, orchPc, orchDiffs, orchResult,
                 envVars, fsVars, logVars, procVars, poolVars>>

\* after the loop: generate the report, return it or the no-changes message
OrchReport ==
  /\ orchPc = "loop" /\ orchIdx > Len(changes)
  /\ LET report == GenerateReport(orchDiffs) IN
     orchResult' = Some(IF report = <<>> THEN NoChangesMsg ELSE report)
  /\ orchPc' = "returned"
  /\ UNCHANGED <<orchIdx, orchDiffs, orchStderr, envVars, callVars, fsVars,
                 logVars, procVars, poolVars>>

\* process teardown with no exit hook registered
ExitHooksNone == <<>>

\* DependencyDiffOrchestrator.__init__: atexit.register(self._cleanup); the
\* hooks the interpreter holds for the process
ExitHooks == IF mode = "orchestrator" THEN <<"DependencyDiffOrchestrator._cleanup">> ELSE <<>>

\* KeyboardInterrupt or SystemExit while process_requirements_diff runs: a
\* BaseException passes the `except Exception` handlers of _try_git_strategy
\* and of the loop and unwinds the call
OrchInterrupt ==
  /\ mode = "orchestrator"
  /\ orchPc = "loop"
  /\ orchPc' = "interrupted"
  /\ pc' = [n \in Names |-> IF Active(n) THEN "done" ELSE pc[n]]
  /\ UNCHANGED <<loc, outcome, gitRes, hist, cmpCall, orchIdx, orchDiffs, orchStderr,
                 orchResult, envVars, fsVars, logVars, procVars, poolVars>>

\* The interpreter shuts down (the program returned from main, or an interrupt
\* unwound it) and runs the registered exit hooks: _cleanup calls
\* self.retriever.cleanup()
ProcessExit ==
  /\ mode = "orchestrator"
  /\ orchPc \in {"idle", "returned", "interrupted"}
  /\ \A n \in Names : ~Active(n)
  /\ orchPc' = "exited"
  /\ IF ExitHooks # <<>>
     THEN HybridCleanup("shared")
     ELSE UNCHANGED <<disk, tempDirs, cleanupLog, lastCall>>
  /\ UNCHANGED <<registry, orchIdx, orchDiffs, orchStderr, orchResult, envVars, callVars,
                 procVars, poolVars>>

\* --------------------------------------------------------- ParallelRetriever
DefaultCpuCount == 4
WorkerCap == 20
Min(a, b) == IF a < b THEN a ELSE b

\* ParallelRetriever.__init__: workers = max_workers or min(20, cpu_count * 2)
PoolSize(max_workers, cpu_count) ==
  IF ~IsNone(max_workers) /\ Val(max_workers) # 0
  THEN Val(max_workers)
  ELSE Min(WorkerCap, cpu_count * 2)

\* the size of self._executor
Workers == PoolSize(maxWorkers, DefaultCpuCount)

\* the directories of dirs that the task of package n created
OwnDirs(dirs, n) == {d \in dirs : d[1] = n}

\* error_msg = f"Error: {e}"
ErrorText(e) == <<"Error: ">> \o e.msg

IsErrorText(t) == StartsWith(t, "Error: ")

MainIdle == procPc \in {"idle", "returned", "raised"} /\ clPc = "idle"

\* a client calls process_changes_parallel(changes)
ParProcess ==
  /\ mode = "parallel"
  /\ procPc = "idle" /\ clPc = "idle"
  /\ procPc' = "submit"
  /\ lastCall' = "process"
  /\ UNCHANGED <<subIdx, colIdx, queue, parDiffs, completed, timedOut, regAtTimeout, parResult,
                 envVars, callVars, fsVars, cleanupLog, orchVars, poolVars>>

\* ParSubmit on a pool that still takes work after shutdown
ParSubmitAfterShutdown ==
  /\ procPc = "submit" /\ subIdx <= Len(changes)
  /\ queue' = Append(queue, changes[subIdx].name)
  /\ pc' = [pc EXCEPT ![changes[subIdx].name] = "queued"]
  /\ subIdx' = subIdx + 1
  /\ UNCHANGED procPc
  /\ UNCHANGED <<colIdx, parDiffs, completed, timedOut, regAtTimeout, parResult, loc, outcome,
                 gitRes, hist, cmpCall, envVars, fsVars, logVars, orchVars, poolVars>>

\* the submit loop: self._executor.submit(self._process_single_package, change)
ParSubmit ==
  /\ procPc = "submit" /\ subIdx <= Len(changes)
  /\ IF poolShutdown   \* submit raises RuntimeError after shutdown
     THEN /\ procPc' = "raised"
          /\ UNCHANGED <<subIdx, queue, pc>>
     ELSE /\ queue' = Append(queue, changes[subIdx].name)
          /\ pc' = [pc EXCEPT ![changes[subIdx].name] = "queued"]
          /\ subIdx' = subIdx + 1
          /\ UNCHANGED procPc
  /\ UNCHANGED <<colIdx, parDiffs, completed, timedOut, regAtTimeout, parResult, loc, outcome,
                 gitRes, hist, cmpCall, envVars, fsVars, logVars, orchVars, poolVars>>

\* the submit loop is over: diffs = {} and the collection loop starts
ParBeginCollect ==
  /\ procPc = "submit" /\ subIdx > Len(changes)
  /\ procPc' = "collect"
  /\ UNCHANGED <<subIdx, colIdx, queue, parDiffs, completed, timedOut, regAtTimeout, parResult,
                 envVars, callVars, fsVars, logVars, orchVars, poolVars>>

\* a pool thread takes the next work item and runs _process_single_package:
\* the retriever is constructed, then get_diff is called
WorkerStart ==
  /\ queue # <<>>
  /\ Cardinality({m \in Names : Active(m)}) < Workers
  /\ LET n == Head(queue) IN
     IF ctorTakesTracker
     THEN /\ pc' = [pc EXCEPT ![n] = "git_entry"]
          /\ UNCHANGED outcome
     ELSE /\ pc' = [pc EXCEPT ![n] = "raised"]
          /\ outcome' = [outcome EXCEPT ![n] = Some(Raised(TypeError))]
  /\ queue' = Tail(queue)
  /\ UNCHANGED <<loc, gitRes, hist, cmpCall, procPc, subIdx, colIdx, parDiffs, completed,
                 timedOut, regAtTimeout, parResult, envVars, fsVars, logVars, orchVars, poolVars>>

\* ParCollect without the handler: the task's exception leaves the loop
ParCollectRaising ==
  /\ procPc = "collect" /\ colIdx <= Len(changes)
  /\ LET n == changes[colIdx].name
         o == Val(outcome[n]) IN
     /\ Finished(n)
     /\ IF o.kind = "return"
        THEN /\ parDiffs' = Put(parDiffs, n, o.value)
             /\ completed' = completed + 1
             /\ colIdx' = colIdx + 1
             /\ UNCHANGED procPc
        ELSE /\ procPc' = "raised"
             /\ UNCHANGED <<parDiffs, completed, colIdx>>
  /\ UNCHANGED <<subIdx, queue, timedOut, regAtTimeout, parResult, envVars, callVars,
                 fsVars, logVars, orchVars, poolVars>>

\* ParCollect that takes the results as they complete: the next name of the
\* list gets the result of whichever task has finished
ParCollectByCompletion ==
  /\ procPc = "collect" /\ colIdx <= Len(changes)
  /\ \E m \in Listed :
       LET o == Val(outcome[m]) IN
       /\ Finished(m)
       /\ parDiffs' = Put(parDiffs, changes[colIdx].name,
                          IF o.kind = "return" THEN o.value ELSE ErrorText(o.exc))
  /\ completed' = completed + 1
  /\ colIdx' = colIdx + 1
  /\ UNCHANGED <<procPc, subIdx, queue, timedOut, regAtTimeout, parResult, envVars, callVars,
                 fsVars, logVars, orchVars, poolVars>>

\* the collection loop: future.result(timeout=300) of a finished future
ParCollect ==
  /\ procPc = "collect" /\ colIdx <= Len(changes)
  /\ LET n == changes[colIdx].name
         o == Val(outcome[n]) IN
     /\ Finished(n)
     /\ parDiffs' = Put(parDiffs, n, IF o.kind = "return" THEN o.value ELSE ErrorText(o.exc))
  /\ completed' = completed + 1
  /\ colIdx' = colIdx + 1
  /\ UNCHANGED <<procPc, subIdx, queue, timedOut, regAtTimeout, parResult, envVars, callVars,
                 fsVars, logVars, orchVars, poolVars>>

\* ParCollectTimeout that records nothing for the package
ParCollectTimeoutDropping ==
  /\ procPc = "collect" /\ colIdx <= Len(changes)
  /\ LET n == changes[colIdx].name IN
     /\ ~Finished(n)
     /\ timedOut' = timedOut \cup {n}
     /\ regAtTimeout' = [regAtTimeout EXCEPT ![n] = Cardinality(OwnDirs(registry, n))]
  /\ completed' = completed + 1
  /\ colIdx' = colIdx + 1
  /\ UNCHANGED <<procPc, subIdx, queue, parDiffs, parResult, envVars, callVars, fsVars,
                 logVars, orchVars, poolVars>>

\* ParCollectTimeout that cancels the task it stopped waiting for
ParCollectTimeoutCancelling ==
  /\ procPc = "collect" /\ colIdx <= Len(changes)
  /\ LET n == changes[colIdx].name IN
     /\ ~Finished(n)
     /\ parDiffs' = Put(parDiffs, n, ErrorText(TimeoutError))
     /\ timedOut' = timedOut \cup {n}
     /\ regAtTimeout' = [regAtTimeout EXCEPT ![n] = Cardinality(OwnDirs(registry, n))]
     /\ pc' = [pc EXCEPT ![n] = "raised"]
     /\ outcome' = [outcome EXCEPT ![n] = Some(Raised(TimeoutError))]
     /\ loc' = [loc EXCEPT ![n] = EmptyLoc]
     /\ queue' = SelectSeq(queue, LAMBDA m : m # n)
  /\ completed' = completed + 1
  /\ colIdx' = colIdx + 1
  /\ UNCHANGED <<procPc, subIdx, parResult, envVars, gitRes, hist, cmpCall, fsVars,
                 logVars, orchVars, poolVars>>

\* ParCollectTimeout of a wait without timeout (future.result()): the wait
\* for an unfinished task never ends
ParCollectUntimed ==
  /\ procPc = "collect" /\ colIdx <= Len(changes)
  /\ FALSE
  /\ UNCHANGED vars

\* the collection loop: future.result(timeout=300) times out; the task goes on
ParCollectTimeout ==
  /\ procPc = "collect" /\ colIdx <= Len(changes)
  /\ LET n == changes[colIdx].name IN
     /\ ~Finished(n)
     /\ parDiffs' = Put(parDiffs, n, ErrorText(TimeoutError))
     /\ timedOut' = timedOut \cup {n}
     /\ regAtTimeout' = [regAtTimeout EXCEPT ![n] = Cardinality(OwnDirs(registry, n))]
  /\ completed' = completed + 1
  /\ colIdx' = colIdx + 1
  /\ UNCHANGED <<procPc, subIdx, queue, parResult, envVars, callVars, fsVars,
                 logVars, orchVars, poolVars>>

\* return diffs
ParReturn ==
  /\ procPc = "collect" /\ colIdx > Len(changes)
  /\ parResult' = Some(parDiffs)
  /\ procPc' = "returned"
  /\ UNCHANGED <<subIdx, colIdx, queue, parDiffs, completed, timedOut, regAtTimeout, envVars,
                 callVars, fsVars, logVars, orchVars, poolVars>>

\* ParallelRetriever.cleanup is called: self._executor.shutdown(wait=True) starts
ParCleanupBegin ==
  /\ mode = "parallel"
  /\ MainIdle
  /\ Len(cleanupLog) < MaxCleanups
  /\ poolShutdown' = TRUE
  /\ clPc' = "wait"
  /\ UNCHANGED <<envVars, callVars, fsVars, logVars, orchVars, procVars>>

\* cleanup_temp_dirs without the handler: the first failure ends the loop
cleanup_temp_dirs_aborting(failing) == IF failing = {} THEN RmTrees(disk, registry) ELSE disk

\* types.cleanup_temp_dirs: rmtree every tracked directory that exists,
\* swallowing OSError
cleanup_temp_dirs(failing) == RmTrees(disk, registry \ failing)

\* shutdown(wait=False): cleanup does not wait for the work items
PoolDrainedNoWait == TRUE

\* every work item submitted to self._executor is done; the tasks the TUI
\* hands to the event loop's default executor are not work items of this pool
PoolDrained == mode = "parallel" => (queue = <<>> /\ \A n \in Names : ~Active(n))

\* shutdown has returned (every work item is done): cleanup_temp_dirs and clear
ParCleanupFinish ==
  /\ clPc = "wait"
  /\ PoolDrained
  /\ \E failing \in FailureSets(registry) :
       /\ disk' = cleanup_temp_dirs(failing)
       /\ registry' = {}
       /\ cleanupLog' = Append(cleanupLog, LogEntry("parallel", registry, failing, registry'))
  /\ lastCall' = "cleanup"
  /\ clPc' = "idle"
  /\ UNCHANGED <<poolShutdown, tempDirs, envVars, callVars, orchVars, procVars>>

\* cleanup called while tasks of another executor run (the TUI's): shutdown
\* returns at once, and cleanup's two statements on the registry, neither of
\* them inside "with self._temp_dirs_lock", are steps other threads can come
\* between. First cleanup_temp_dirs(self._temp_dirs): the pass over the set
ParCleanupPass ==
  /\ mode = "tui" /\ clPc = "wait"
  /\ \E failing \in FailureSets(registry) :
       /\ disk' = cleanup_temp_dirs(failing)
       /\ cleanupLog' = Append(cleanupLog, LogEntry("parallel", registry, failing, {}))
  /\ clPc' = "clear"
  /\ UNCHANGED <<poolShutdown, tempDirs, registry, lastCall, envVars, callVars, orchVars,
                 procVars>>

\* then self._temp_dirs.clear()
ParCleanupClear ==
  /\ mode = "tui" /\ clPc = "clear"
  /\ registry' = {}
  /\ lastCall' = "cleanup"
  /\ clPc' = "idle"
  /\ UNCHANGED <<poolShutdown, disk, tempDirs, cleanupLog, envVars, callVars, orchVars,
                 procVars>>

\* ------------------------------------------------------------ DepDiffApp
\* on_mount calls action_refresh: the diffs are cleared and, for every item,
\* the status becomes "loading" and fetch_diff starts a worker for
\* _get_diff_task, which hands _task to the event loop's default executor
TuiMount ==
  /\ mode = "tui" /\ tuiPc = "idle"
  /\ tuiDiffs' = EmptyMap
  /\ tuiStatus' = [n \in Listed |-> "loading"]
  /\ tuiWorkers' = [n \in Listed |-> 1]
  /\ pc' = [n \in Names |-> IF n \in Listed THEN "queued" ELSE pc[n]]
  /\ tuiPc' = "mounted"
  /\ lastCall' = "refresh"
  /\ UNCHANGED <<mode, changes, ctorTakesTracker, maxWorkers, fnVars, loc, outcome, gitRes, hist,
                 cmpCall, fsVars, cleanupLog, orchVars, procVars, poolVars>>

\* the key r, action_refresh: the diffs are cleared and, for every item, the
\* status becomes "loading" and fetch_diff starts one more worker, whether or
\* not an earlier worker of the package is still running. The workers of one
\* package are taken one after the other here: the new one starts when the
\* state change of the one before it has been handled
TuiRefresh ==
  /\ mode = "tui" /\ tuiPc = "mounted"
  /\ \A n \in Listed : tuiWorkers[n] < MaxFetches
  /\ tuiDiffs' = EmptyMap
  /\ tuiStatus' = [n \in Listed |-> "loading"]
  /\ tuiWorkers' = [n \in Listed |-> tuiWorkers[n] + 1]
  /\ pc' = [n \in Names |-> IF n \in Listed /\ pc[n] = "done" THEN "queued" ELSE pc[n]]
  /\ lastCall' = "refresh"
  /\ UNCHANGED <<mode, changes, ctorTakesTracker, maxWorkers, fnVars, tuiPc, loc, outcome,
                 gitRes, hist, cmpCall, fsVars, cleanupLog, orchVars, procVars, poolVars>>

\* a thread of the default executor runs _task: _process_single_package
\* constructs the retriever and calls get_diff
TuiTaskStart(n) ==
  /\ mode = "tui" /\ pc[n] = "queued"
  /\ IF ctorTakesTracker
     THEN /\ pc' = [pc EXCEPT ![n] = "git_entry"]
          /\ UNCHANGED outcome
     ELSE /\ pc' = [pc EXCEPT ![n] = "raised"]
          /\ outcome' = [outcome EXCEPT ![n] = Some(Raised(TypeError))]
  /\ UNCHANGED <<loc, gitRes, hist, cmpCall, envVars, fsVars, logVars, orchVars,
                 procVars, poolVars>>

\* diff.startswith("Error:")
TuiIsError(diff) == diff # <<>> /\ diff[1] \in {"Error:", "Error: "}

\* the worker of package n has been handled: the next worker of the package,
\* if a refresh started one, takes its place
WorkerHandled(n) ==
  /\ tuiWorkers' = [tuiWorkers EXCEPT ![n] = @ - 1]
  /\ pc' = [pc EXCEPT ![n] = IF tuiWorkers[n] > 1 THEN "queued" ELSE "done"]
  /\ outcome' = [outcome EXCEPT ![n] = None]
  /\ gitRes' = [gitRes EXCEPT ![n] = None]
  /\ hist' = [hist EXCEPT ![n] = <<>>]
  /\ cmpCall' = [cmpCall EXCEPT ![n] = None]

\* TuiTaskDone that leaves the status of a failed fetch as it is
TuiTaskDoneKeepingLoading(n) ==
  /\ mode = "tui" /\ tuiPc = "mounted"
  /\ Finished(n)
  /\ LET o == Val(outcome[n])
         diff == IF o.kind = "return" THEN o.value ELSE ErrorText(o.exc) IN
     /\ tuiDiffs' = Put(tuiDiffs, n, diff)
     /\ tuiStatus' = [tuiStatus EXCEPT ![n] = IF TuiIsError(diff) THEN @ ELSE "done"]
  /\ WorkerHandled(n)
  /\ UNCHANGED <<mode, changes, ctorTakesTracker, maxWorkers, fnVars, tuiPc, loc, fsVars, logVars,
                 orchVars, procVars, poolVars>>

\* _task returns the diff, or f"Error: {e}" for what the call raised, and
\* on_worker_state_changed (SUCCESS) stores it and sets the status
TuiTaskDone(n) ==
  /\ mode = "tui" /\ tuiPc = "mounted"
  /\ Finished(n)
  /\ LET o == Val(outcome[n])
         diff == IF o.kind = "return" THEN o.value ELSE ErrorText(o.exc) IN
     /\ tuiDiffs' = Put(tuiDiffs, n, diff)
     /\ tuiStatus' = [tuiStatus EXCEPT ![n] = IF TuiIsError(diff) THEN "error" ELSE "done"]
  /\ WorkerHandled(n)
  /\ UNCHANGED <<mode, changes, ctorTakesTracker, maxWorkers, fnVars, tuiPc, loc, fsVars, logVars,
                 orchVars, procVars, poolVars>>

\* name=f"fetch-{item.change.name}"
WorkerName(n) == <<"fetch-", n>>

\* event.worker.name.replace("fetch-", "")
FetchedName(worker_name) == SelectSeq(worker_name, LAMBDA t : t # "fetch-")[1]

\* the worker itself fails (its coroutine raises before _task has a result):
\* on_worker_state_changed (ERROR) stores the error text under the name taken
\* from the worker's name and sets that name's status
TuiWorkerError(n) ==
  /\ mode = "tui" /\ tuiPc = "mounted"
  /\ pc[n] = "queued"
  /\ LET name == FetchedName(WorkerName(n)) IN
     /\ tuiDiffs' = Put(tuiDiffs, name, <<"Worker Error: ", "cannot schedule new futures">>)
     /\ tuiStatus' = Put(tuiStatus, name, "error")
  /\ WorkerHandled(n)
  /\ UNCHANGED <<mode, changes, ctorTakesTracker, maxWorkers, fnVars, tuiPc, loc, fsVars, logVars,
                 orchVars, procVars, poolVars>>

\* action_quit: self.retriever.cleanup() starts with self._executor.shutdown(wait=True)
TuiQuit ==
  /\ mode = "tui" /\ tuiPc = "mounted" /\ clPc = "idle"
  /\ poolShutdown' = TRUE
  /\ clPc' = "wait"
  /\ tuiPc' = "quitting"
  /\ UNCHANGED <<mode, changes, ctorTakesTracker, maxWorkers, fnVars, tuiStatus, tuiDiffs, tuiWorkers, callVars,
                 fsVars, logVars, orchVars, procVars>>

\* action_quit: cleanup has returned; self.exit()
TuiExit ==
  /\ mode = "tui" /\ tuiPc = "quitting" /\ clPc = "idle"
  /\ tuiPc' = "exited"
  /\ UNCHANGED <<mode, changes, ctorTakesTracker, maxWorkers, fnVars, tuiStatus, tuiDiffs, tuiWorkers, callVars,
                 fsVars, logVars, orchVars, procVars, poolVars>>

\* ------------------------------------------------ functions applied alone
\* the sequences over S of length at most k
SeqsUpTo(S, k) == UNION {[1..m -> S] : m \in 0..k}

\* the state in which one function is about to be applied to its arguments
FnInit(f, argSets) ==
  /\ mode = "function" /\ changes = <<>> /\ ctorTakesTracker = FALSE
  /\ maxWorkers = None
  /\ Constructed
  /\ callee = f /\ args \in argSets /\ result = None

\* the function has returned or raised: r is what it returned or raised
FnApply(f, r) ==
  /\ callee = f /\ IsNone(result)
  /\ result' = Some(r)
  /\ UNCHANGED <<mode, changes, ctorTakesTracker, maxWorkers, tuiVars, callee, args, callVars, fsVars,
                 logVars, orchVars, procVars, poolVars>>

\* tag names a repository may hold and version strings a caller may ask for
FnTags == TagUniverse \cup {"v", "latest"}
FnVersions == {OldVersionStr, NewVersionStr, "3.0"}

\* what `git tag --list` may do in a call of _resolve_tag: fail, or print
\* up to MaxTagLines tag names
FnTagListResults ==
  { [ok |-> FALSE, exc |-> e, lines |-> <<>>] : e \in {CalledProcessError, FileNotFoundError} }
    \cup { [ok |-> TRUE, exc |-> CalledProcessError, lines |-> l] : l \in SeqsUpTo(FnTags, MaxTagLines) }

InitResolveTag ==
  FnInit("_resolve_tag", [listing : FnTagListResults, version : FnVersions])

\* self._resolve_tag(repo_path, version)
ApplyResolveTag == FnApply("_resolve_tag", resolve_tag(args.listing, args.version))

\* the URLs a release may list
FnUrls ==
  { SdistUrl, <<"https://files.pythonhosted.org/pkg-2", ".tar.gz">>,
    WheelUrl, <<"https://files.pythonhosted.org/pkg-cp311", ".whl">>, EggUrl }

\* _download_artifact from the metadata to the request for the archive: the
\* URL chosen and the requests made for archives, or the ValueError
select_artifact(n, v, urls) ==
  LET download_url == ChooseArtifact(urls) IN
  IF IsNone(download_url)
  THEN [raised |-> TRUE, exc |-> NoArtifactError(n, v), url |-> None, fetched |-> <<>>]
  ELSE [raised |-> FALSE, exc |-> NoArtifactError(n, v), url |-> download_url,
        fetched |-> <<Val(download_url)>>]

InitSelectArtifact ==
  FnInit("_download_artifact",
         [name : Names, version : {OldVersionStr, NewVersionStr}, urls : SeqsUpTo(FnUrls, MaxUrls)])

\* self._download_artifact(package_name, version), up to requests.get(download_url)
ApplySelectArtifact ==
  FnApply("_download_artifact", select_artifact(args.name, args.version, args.urls))

\* the top-level entries an archive may hold: directories and files
ArchiveEntries ==
  { [name |-> "django-2.0", is_dir |-> TRUE],
    [name |-> "django", is_dir |-> TRUE],
    [name |-> "django-2.0.dist-info", is_dir |-> TRUE],
    [name |-> "setup.py", is_dir |-> FALSE],
    [name |-> "six.py", is_dir |-> FALSE],
    [name |-> "README.md", is_dir |-> FALSE] }

\* package_root that descends into a directory whenever there is one
package_root_any_dir(extract_path, extracted_dirs) ==
  IF extracted_dirs # {}
  THEN extract_path \o <<CHOOSE name \in extracted_dirs : TRUE>>
  ELSE extract_path

\* the end of _download_artifact: extracted_dirs[0] if len(extracted_dirs) == 1,
\* else extract_path
package_root(extract_path, extracted_dirs) ==
  IF Cardinality(extracted_dirs) = 1
  THEN extract_path \o <<CHOOSE name \in extracted_dirs : TRUE>>
  ELSE extract_path

\* _download_artifact from write_bytes to its return, on an archive with the
\* top-level entries given: the paths under extract_path afterwards and the
\* directory returned
extract_artifact(extract_path, download_url, entries) ==
  LET artifact_file == extract_path \o <<"artifact">>
      written == {extract_path, artifact_file}
      extracted ==
        IF EndsWith(download_url, ".tar.gz") \/ EndsWith(download_url, ".whl")
        THEN written \cup {extract_path \o <<e.name>> : e \in entries}
        ELSE written
      unlinked == extracted \ {artifact_file}
      extracted_dirs ==
        {e.name : e \in {x \in entries : x.is_dir /\ extract_path \o <<x.name>> \in unlinked}} IN
  [root |-> package_root(extract_path, extracted_dirs), disk |-> unlinked]

InitExtract ==
  FnInit("_download_artifact.extract",
         [dir : {ArtDir(n, w) : n \in {"django"}, w \in {"old", "new"}},
          url : {SdistUrl, WheelUrl},
          entries : SUBSET ArchiveEntries])

\* self._download_artifact(package_name, version), from response.content on
ApplyExtract ==
  FnApply("_download_artifact.extract", extract_artifact(args.dir, args.url, args.entries))

\* ------------------------------------------------------- SourceComparator
\* A file is its bytes as the comparator sees them: whether it can be opened,
\* the offset of its first null byte (Optional), and its lines as readlines()
\* returns them, each a sequence of pieces that keeps its line terminator.
\* A tree is a function from the relative paths of its files to the files.
ChunkSize == 8192

Whitespace == {" ", "\t", "\r", "\n"}

TextFile(lines) == [readable |-> TRUE, nul |-> None, lines |-> lines]
BinaryFile(bytes) == [readable |-> TRUE, nul |-> Some(0), lines |-> <<bytes>>]
UnreadableFile == [readable |-> FALSE, nul |-> None, lines |-> <<>>]

LineImport == <<"import os", "\n">>
LineAssign == <<"x = 1", " ", "\n">>
LinePrint == <<"print(x)">>

Files ==
  { TextFile(<<LineImport>>),
    TextFile(<<LineImport, LineAssign>>),
    TextFile(<<LineAssign, LinePrint>>),
    BinaryFile(<<"NUL", "01", "02">>),
    BinaryFile(<<"NUL", "01", "03">>),
    UnreadableFile }

\* relative paths, in the order sorted() gives them
RelPaths == <<"README.md", "pkg/__init__.py", "setup.py", "tests/test_pkg.py">>
Paths == {RelPaths[i] : i \in 1..Min(MaxPaths, Len(RelPaths))}

Trees == UNION {[S -> Files] : S \in SUBSET Paths}

\* IsBinary that looks for a null byte in the whole file
IsBinaryWholeFile(f) == IF ~f.readable THEN TRUE ELSE ~IsNone(f.nul)

\* SourceComparator._is_binary: a null byte in f.read(8192); True when the
\* file cannot be opened or read
IsBinary(f) == IF ~f.readable THEN TRUE ELSE ~IsNone(f.nul) /\ Val(f.nul) < ChunkSize

\* SourceComparator._collect_files, as relative paths
CollectFiles(tree) == DOMAIN tree

RECURSIVE SortedPathsFrom(_, _)
\* sorted(paths)
SortedPathsFrom(paths, i) ==
  IF i > Len(RelPaths) THEN <<>>
  ELSE (IF RelPaths[i] \in paths THEN <<RelPaths[i]>> ELSE <<>>) \o SortedPathsFrom(paths, i + 1)

SortedPaths(paths) == SortedPathsFrom(paths, 1)

RECURSIVE RStripSet(_, _)
\* line.rstrip() and line.rstrip("\n"): drop the trailing pieces that are in chars
RStripSet(line, chars) ==
  IF Len(line) > 0 /\ line[Len(line)] \in chars
  THEN RStripSet(SubSeq(line, 1, Len(line) - 1), chars)
  ELSE line

\* [prefix + line.rstrip() for line in content]
PrefixedLines(prefix, content) ==
  [i \in 1..Len(content) |-> <<prefix>> \o RStripSet(content[i], Whitespace)]

\* SourceComparator._generate_deletion_diff
GenerateDeletionDiff(rel, f) ==
  << <<"--- a/", rel>>, <<"+++ /dev/null">> >>
    \o (IF f.readable THEN PrefixedLines("-", f.lines) ELSE <<>>)

\* GenerateAdditionDiff whose old-side header names the path
GenerateAdditionDiffOldHeader(rel, f) ==
  << <<"--- a/", rel>>, <<"+++ b/", rel>> >>
    \o (IF f.readable THEN PrefixedLines("+", f.lines) ELSE <<>>)

\* SourceComparator._generate_addition_diff
GenerateAdditionDiff(rel, f) ==
  << <<"--- /dev/null">>, <<"+++ b/", rel>> >>
    \o (IF f.readable THEN PrefixedLines("+", f.lines) ELSE <<>>)

\* difflib.SequenceMatcher.find_longest_match over a[alo..ahi], b[blo..bhi]:
\* the blocks <<i, j, k>> with a[i..i+k-1] = b[j..j+k-1]
MatchCandidates(a, b, alo, ahi, blo, bhi) ==
  {c \in (alo..ahi) \X (blo..bhi) \X (1..Len(a)) :
     /\ c[1] + c[3] - 1 <= ahi /\ c[2] + c[3] - 1 <= bhi
     /\ \A t \in 0..(c[3] - 1) : a[c[1] + t] = b[c[2] + t]}

\* the longest one; of those the one that starts earliest in a, then in b
LongestMatch(cands) ==
  CHOOSE c \in cands : \A d \in cands :
    \/ c[3] > d[3]
    \/ c[3] = d[3] /\ c[1] < d[1]
    \/ c[3] = d[3] /\ c[1] = d[1] /\ c[2] <= d[2]

RECURSIVE MatchingBlocks(_, _, _, _, _, _)
\* difflib.SequenceMatcher.get_matching_blocks, without the final sentinel
MatchingBlocks(a, b, alo, ahi, blo, bhi) ==
  LET cands == MatchCandidates(a, b, alo, ahi, blo, bhi) IN
  IF cands = {} THEN <<>>
  ELSE LET m == LongestMatch(cands) IN
       MatchingBlocks(a, b, alo, m[1] - 1, blo, m[2] - 1)
         \o <<m>>
         \o MatchingBlocks(a, b, m[1] + m[3], ahi, m[2] + m[3], bhi)

\* [prefix + line for line in content[lo..hi]], each then .rstrip("\n")
HunkLines(prefix, content, lo, hi) ==
  [i \in 1..(hi - lo + 1) |-> <<prefix>> \o RStripSet(content[lo + i - 1], {"\n"})]

RECURSIVE HunkBody(_, _, _, _, _)
\* the lines difflib.unified_diff yields for the opcodes of one group: what
\* lies before each matching block as '-' lines then '+' lines, the block
\* itself as ' ' lines
HunkBody(a, b, blocks, i, j) ==
  IF blocks = <<>>
  THEN HunkLines("-", a, i, Len(a)) \o HunkLines("+", b, j, Len(b))
  ELSE LET m == Head(blocks) IN
       HunkLines("-", a, i, m[1] - 1) \o HunkLines("+", b, j, m[2] - 1)
         \o HunkLines(" ", a, m[1], m[1] + m[3] - 1)
         \o HunkBody(a, b, Tail(blocks), m[1] + m[3], m[2] + m[3])

\* difflib._format_range_unified(0, length)
FormatRange(length) ==
  IF length = 1 THEN "1"
  ELSE IF length = 0 THEN "0,0"
  ELSE "1," \o ToString(length)

\* difflib.unified_diff(a, b, fromfile, tofile, lineterm=""), lines stripped of
\* "\n": nothing for equal sequences; else the two headers and, the files of
\* Files being shorter than the three lines of context, one hunk over both
UnifiedDiff(a, b, fromfile, tofile) ==
  IF a = b THEN <<>>
  ELSE << <<"--- ", fromfile[1], fromfile[2]>>, <<"+++ ", tofile[1], tofile[2]>>,
          <<"@@ -", FormatRange(Len(a)), " +", FormatRange(Len(b)), " @@">> >>
         \o HunkBody(a, b, MatchingBlocks(a, b, 1, Len(a), 1, Len(b)), 1, 1)

\* GenerateFileDiff that takes two files of as many lines for identical
GenerateFileDiffByLength(rel, fo, fn) ==
  IF ~fo.readable \/ ~fn.readable \/ Len(fo.lines) = Len(fn.lines) THEN <<>>
  ELSE LET diff_lines == UnifiedDiff(fo.lines, fn.lines, <<"a/", rel>>, <<"b/", rel>>) IN
       IF Len(diff_lines) > 2 THEN diff_lines ELSE <<>>

\* SourceComparator._generate_file_diff
GenerateFileDiff(rel, fo, fn) ==
  IF ~fo.readable \/ ~fn.readable THEN <<>>
  ELSE LET diff_lines == UnifiedDiff(fo.lines, fn.lines, <<"a/", rel>>, <<"b/", rel>>) IN
       IF Len(diff_lines) > 2 THEN diff_lines ELSE <<>>

RECURSIVE DeletedLines(_, _)
\* the loop over sorted(deleted_files)
DeletedLines(old, rels) ==
  IF rels = <<>> THEN <<>>
  ELSE (IF ~IsBinary(old[Head(rels)])
        THEN GenerateDeletionDiff(Head(rels), old[Head(rels)]) ELSE <<>>)
       \o DeletedLines(old, Tail(rels))

RECURSIVE AddedLines(_, _)
\* the loop over sorted(added_files)
AddedLines(new, rels) ==
  IF rels = <<>> THEN <<>>
  ELSE (IF ~IsBinary(new[Head(rels)])
        THEN GenerateAdditionDiff(Head(rels), new[Head(rels)]) ELSE <<>>)
       \o AddedLines(new, Tail(rels))

RECURSIVE CommonLinesOldOnly(_, _, _)
\* CommonLines that looks only at the old file to skip a binary pair
CommonLinesOldOnly(old, new, rels) ==
  IF rels = <<>> THEN <<>>
  ELSE (IF IsBinary(old[Head(rels)])
        THEN <<>>
        ELSE GenerateFileDiff(Head(rels), old[Head(rels)], new[Head(rels)]))
       \o CommonLinesOldOnly(old, new, Tail(rels))

RECURSIVE CommonLines(_, _, _)
\* the loop over sorted(common_files)
CommonLines(old, new, rels) ==
  IF rels = <<>> THEN <<>>
  ELSE (IF IsBinary(old[Head(rels)]) \/ IsBinary(new[Head(rels)])
        THEN <<>>
        ELSE GenerateFileDiff(Head(rels), old[Head(rels)], new[Head(rels)]))
       \o CommonLines(old, new, Tail(rels))

\* old_rel_files - new_rel_files
deleted_files(old, new) == CollectFiles(old) \ CollectFiles(new)

\* new_rel_files - old_rel_files
added_files(old, new) == CollectFiles(new) \ CollectFiles(old)

\* old_rel_files & new_rel_files
common_files(old, new) == CollectFiles(old) \cap CollectFiles(new)

\* CompareLines with added_files = new_rel_files
CompareLinesAddedAll(old, new) ==
  DeletedLines(old, SortedPaths(deleted_files(old, new)))
    \o AddedLines(new, SortedPaths(CollectFiles(new)))
    \o CommonLines(old, new, SortedPaths(common_files(old, new)))

\* CompareLines with the loop over the added files run before the one over
\* the deleted files
CompareLinesAdditionsFirst(old, new) ==
  AddedLines(new, SortedPaths(added_files(old, new)))
    \o DeletedLines(old, SortedPaths(deleted_files(old, new)))
    \o CommonLines(old, new, SortedPaths(common_files(old, new)))

\* diff_lines of compare_directories: the three loops, in the order of the code
CompareLines(old, new) ==
  DeletedLines(old, SortedPaths(deleted_files(old, new)))
    \o AddedLines(new, SortedPaths(added_files(old, new)))
    \o CommonLines(old, new, SortedPaths(common_files(old, new)))

\* SourceComparator.compare_directories: "\n".join(diff_lines)
compare_directories(old, new) == Join(CompareLines(old, new), "\n")

InitCompare == FnInit("compare_directories", [old : Trees, new : Trees])

\* self._comparator.compare_directories(old_dir, new_dir)
ApplyCompare == FnApply("compare_directories", compare_directories(args.old, args.new))

\* offsets at which a file given to _is_binary alone may hold null bytes, and
\* what opening and reading it may do
NulOffsets == {0, 100, ChunkSize - 1, ChunkSize, ChunkSize + 1, 2 * ChunkSize}
FileAccess == {"ok", "open_fails", "read_fails"}

\* the file as the comparator sees it
FileOf(access, nuls) ==
  [readable |-> access = "ok",
   nul |-> IF nuls = {} THEN None ELSE Some(CHOOSE o \in nuls : \A q \in nuls : o <= q),
   lines |-> <<>>]

InitIsBinary == FnInit("_is_binary", [access : FileAccess, nuls : SUBSET NulOffsets])

\* self._is_binary(file_path)
ApplyIsBinary == FnApply("_is_binary", IsBinary(FileOf(args.access, args.nuls)))

\* ------------------------------------------ ReportGenerator._format_header
\* The header character by character: a text is the sequence of its
\* characters.
LineWidth == 80

\* s * n of Python: n copies of the character, none for n <= 0
Repeat(c, n) == [i \in 1..n |-> c]

\* str.upper() on the characters of NameChars
UpperChar(c) == IF c = "a" THEN "A" ELSE IF c = "z" THEN "Z" ELSE c

\* f" DIFF FOR PACKAGE: {package_name.upper()} "
Title(package_name) ==
  <<" ", "D", "I", "F", "F", " ", "F", "O", "R", " ", "P", "A", "C", "K", "A", "G", "E", ":", " ">>
    \o [i \in 1..Len(package_name) |-> UpperChar(package_name[i])] \o <<" ">>

\* format_header that pads both sides of the title with the same count
format_header_symmetric(package_name) ==
  LET separator == Repeat("=", LineWidth)
      title == Title(package_name)
      padding == (LineWidth - Len(title)) \div 2
      header_line == Repeat("=", padding) \o title \o Repeat("=", padding) IN
  separator \o <<"\n">> \o header_line \o <<"\n">> \o separator

\* ReportGenerator._format_header
format_header(package_name) ==
  LET separator == Repeat("=", LineWidth)
      title == Title(package_name)
      padding == (LineWidth - Len(title)) \div 2
      header_line == Repeat("=", padding) \o title
                       \o Repeat("=", LineWidth - padding - Len(title)) IN
  separator \o <<"\n">> \o header_line \o <<"\n">> \o separator

\* the characters a package name is made of here, and the names: one
\* character repeated, up to MaxNameLen times
NameChars == {"a", "z", "9", "-"}
HeaderNames == {Repeat(c, k) : c \in NameChars, k \in 1..MaxNameLen}

InitFormatHeader == FnInit("_format_header", [name : HeaderNames])

\* header = self._format_header(package_name)
ApplyFormatHeader == FnApply("_format_header", format_header(args.name))

\* --------------------------------------------------------------- DiffParser
\* A line of the diff is a sequence of pieces; the markers '+' and '-' and the
\* blanks are pieces of one character, so piece 1 and piece 2 are line[0] and
\* line[1] wherever the parser looks at them.
IndexError == Exc("IndexError", <<"string index out of range">>)

LineRemoved(n, v) == <<"-", n, "==", v>>
LineAdded(n, v) == <<"+", n, "==", v>>
LineAddedSpaced(n, v) == <<"+", " ", n, "==", v>>

DiffLines ==
  { LineRemoved("django", OldVersionStr),
    LineAdded("django", NewVersionStr),
    LineAddedSpaced("django", "3.0"),
    LineRemoved("flask", OldVersionStr),
    LineAdded("flask", NewVersionStr),
    <<"+", "+", "+", " ", "b/requirements.txt">>,
    <<"-", "-", "-", " ", "a/requirements.txt">>,
    <<" ", "six", "==", OldVersionStr>>,
    <<"+", "flask">>,
    <<"-", "#", " ", "pinned">>,
    <<"+">>,
    <<>> }

\* what the same DiffParser may have been given in an earlier call of parse
EarlierDiffs ==
  { <<>>,
    <<LineRemoved("django", OldVersionStr)>>,
    <<LineAdded("flask", NewVersionStr), LineRemoved("flask", OldVersionStr)>>,
    <<LineAdded("django", NewVersionStr), <<"-">>, LineAdded("flask", NewVersionStr)>> }

RECURSIVE LStrip(_)
\* the front half of str.strip()
LStrip(text) ==
  IF Len(text) > 0 /\ text[1] \in Whitespace THEN LStrip(Tail(text)) ELSE text

\* str.strip()
Strip(text) == LStrip(RStripSet(text, Whitespace))

\* packaging's Requirement(text): a name, optionally followed by one version
\* specifier; anything else is an InvalidRequirement
ParseRequirement(text) ==
  IF Len(text) = 3 /\ text[1] \in {"django", "flask", "six"} /\ text[2] \in {"==", ">="}
  THEN [valid |-> TRUE, name |-> text[1], specifier |-> <<text[3]>>]
  ELSE IF Len(text) = 1 /\ text[1] \in {"django", "flask", "six"}
  THEN [valid |-> TRUE, name |-> text[1], specifier |-> <<>>]
  ELSE [valid |-> FALSE, name |-> "", specifier |-> <<>>]

\* req.name in self._dependency_changes, the dictionary kept as the sequence
\* of its values in insertion order
Recorded(rec, n) == \E i \in 1..Len(rec) : rec[i].name = n

\* RecordAdded that stores a new entry whether or not the name is recorded
RecordAddedAppending(rec, n, v) ==
  Append(rec, [name |-> n, old_version |-> None, new_version |-> Some(v)])

\* the '+' branch of parse once the requirement and its version are known
RecordAdded(rec, n, v) ==
  IF Recorded(rec, n)
  THEN [i \in 1..Len(rec) |-> IF rec[i].name = n THEN [rec[i] EXCEPT !.new_version = Some(v)]
                                                  ELSE rec[i]]
  ELSE Append(rec, [name |-> n, old_version |-> None, new_version |-> Some(v)])

\* the '-' branch of parse once the requirement and its version are known
RecordRemoved(rec, n, v) ==
  IF Recorded(rec, n)
  THEN [i \in 1..Len(rec) |-> IF rec[i].name = n THEN [rec[i] EXCEPT !.old_version = Some(v)]
                                                  ELSE rec[i]]
  ELSE Append(rec, [name |-> n, old_version |-> Some(v), new_version |-> None])

\* one iteration of the loop of parse over self._dependency_changes = rec:
\* line[1] is read outside the try, so a line that is only its marker raises
\* IndexError; inside the try InvalidRequirement and the IndexError of a
\* requirement without specifier are caught and the line is skipped
ParseLine(rec, line) ==
  LET req == ParseRequirement(Strip(Tail(line))) IN
  IF line # <<>> /\ line[1] \in {"+", "-"} /\ Len(line) < 2
  THEN [raised |-> TRUE, rec |-> rec]
  ELSE IF line # <<>> /\ line[1] = "+" /\ line[2] # "+"
  THEN [raised |-> FALSE,
        rec |-> IF req.valid /\ req.specifier # <<>>
                THEN RecordAdded(rec, req.name, req.specifier[1]) ELSE rec]
  ELSE IF line # <<>> /\ line[1] = "-" /\ line[2] # "-"
  THEN [raised |-> FALSE,
        rec |-> IF req.valid /\ req.specifier # <<>>
                THEN RecordRemoved(rec, req.name, req.specifier[1]) ELSE rec]
  ELSE [raised |-> FALSE, rec |-> rec]

RECURSIVE parse(_, _)
\* DiffParser.parse on an instance whose self._dependency_changes is rec:
\* whether it raised, what it returned, and the dictionary it leaves
parse(rec, lines) ==
  IF lines = <<>>
  THEN [raised |-> FALSE, exc |-> IndexError, value |-> rec, rec |-> rec]
  ELSE LET r == ParseLine(rec, Head(lines)) IN
       IF r.raised
       THEN [raised |-> TRUE, exc |-> IndexError, value |-> <<>>, rec |-> r.rec]
       ELSE parse(r.rec, Tail(lines))

InitParse ==
  FnInit("parse", [earlier : EarlierDiffs, diff : SeqsUpTo(DiffLines, MaxDiffLines)])

\* ApplyParse on a parser that starts every call with an empty dictionary
ApplyParseFresh == FnApply("parse", parse(<<>>, args.diff))

\* self.parser.parse(diff_input) on a DiffParser that has parsed args.earlier
ApplyParse == FnApply("parse", parse(parse(<<>>, args.earlier).rec, args.diff))

\* ------------------------------------------------------------------ claims
\* sub occurs in s as a contiguous run
Contains(s, sub) == \E i \in 0..(Len(s) - Len(sub)) : SubSeq(s, i + 1, i + Len(sub)) = sub

\* the steps of a get_diff call that runs both strategies to the end
FullHist == <<"vcs", "artifact", "fetch_old", "fetch_new", "compare">>

\* the positions of a call inside the artifact path
ArtifactPcs == {"art_meta", "art_mkdtemp", "art_download", "art_extract", "art_compare"}

\* no artifact directory of package n exists or is tracked
NoArtifactDirs(n) ==
  /\ \A p \in disk : ~\E w \in {"old", "new"} : IsPrefix(ArtDir(n, w), p)
  /\ \A i \in Instances : \A w \in {"old", "new"} : ArtDir(n, w) \notin tempDirs[i]
  /\ \A w \in {"old", "new"} : ArtDir(n, w) \notin registry

\* C1: process_changes_parallel returns a mapping whose key set is exactly the
\* set of names of the list; every value is the diff text the package's task
\* returned or an error text; while results are collected, no name handled so
\* far is absent.
C1_MappingCoversEveryName ==
  /\ procPc = "collect" => DOMAIN parDiffs = {changes[i].name : i \in 1..(colIdx - 1)}
  /\ procPc = "returned" =>
       LET m == Val(parResult) IN
       /\ DOMAIN m = Listed
       /\ \A n \in Listed :
            \/ IsErrorText(m[n])
            \/ pc[n] = "returned" /\ m[n] = Val(outcome[n]).value

\* C1's case: a returned mapping of two packages, one entry a diff, one an error
C1_Witness ==
  /\ procPc = "returned"
  /\ Cardinality(Listed) = NumPkgs
  /\ \E a, b \in Listed :
       /\ a # b
       /\ pc[a] = "returned"
       /\ Val(parResult)[a] = Val(outcome[a]).value /\ Val(parResult)[a] # <<>>
       /\ IsErrorText(Val(parResult)[b])

\* C2: a task that raises never makes process_changes_parallel raise (the call
\* only raises when nothing could be submitted); the entry of a package whose
\* task raised is the error text of its exception, and the entry of every
\* package whose task returned is exactly what that task returned.
C2_FailureIsolation ==
  /\ procPc = "raised" => \A n \in Names : pc[n] = "idle"
  /\ \A n \in (DOMAIN parDiffs) \ timedOut :
       /\ Finished(n)
       /\ Val(outcome[n]).kind = "raise" => parDiffs[n] = ErrorText(Val(outcome[n]).exc)
       /\ Val(outcome[n]).kind = "return" => parDiffs[n] = Val(outcome[n]).value
  /\ procPc = "returned" => Val(parResult) = parDiffs

\* C2's case: the first package's task raised inside get_diff, the second one
\* returned a diff, and the call has returned
C2_Witness ==
  /\ procPc = "returned"
  /\ Len(changes) = NumPkgs
  /\ timedOut = {}
  /\ LET a == changes[1].name
         b == changes[2].name IN
     /\ pc[a] = "raised" /\ hist[a] # <<>>
     /\ Val(parResult)[a] = ErrorText(Val(outcome[a]).exc)
     /\ pc[b] = "returned" /\ Val(outcome[b]).value # <<>>
     /\ Val(parResult)[b] = Val(outcome[b]).value

\* C3: when process_requirements_diff has returned, the report holds the
\* section of every update change whose retrieval returned, and a section
\* with the error text for every update change whose retrieval raised.
C3_FailingPackageKeepsSection ==
  orchPc = "returned" =>
    \A n \in Listed :
      (is_update(ChangeOf(n)) /\ ~IsNone(outcome[n])) =>
        /\ Contains(Val(orchResult), FormatHeader(n))
        /\ Val(outcome[n]).kind = "raise" =>
             Contains(Val(orchResult), Val(outcome[n]).exc.msg)

\* C4: a get_diff call runs the version-control step before anything else;
\* when that step produced a diff, the artifact path is never started (no
\* artifact directory, no comparison) and get_diff returns exactly that diff.
C4_VcsFirstAndFinal ==
  \A n \in Names :
    /\ (Active(n) /\ pc[n] # "git_entry") \/ Finished(n) => (hist[n] # <<>> /\ hist[n][1] = "vcs")
    /\ (~IsNone(gitRes[n]) /\ ~IsNone(Val(gitRes[n]))) =>
         /\ hist[n] = <<"vcs">>
         /\ IsNone(cmpCall[n])
         /\ NoArtifactDirs(n)
         /\ pc[n] \in {"git_ret", "returned"}
         /\ pc[n] = "returned" => outcome[n] = Some(Ret(Val(Val(gitRes[n]))))

\* C4's case: the version-control step produced a non-empty diff and get_diff
\* has returned
C4_Witness ==
  \E n \in Listed :
    /\ is_update(ChangeOf(n))
    /\ pc[n] = "returned"
    /\ ~IsNone(Val(gitRes[n])) /\ Val(Val(gitRes[n])) # <<>>
    /\ outcome[n] = Some(Ret(Val(Val(gitRes[n]))))

\* C5: for an update change whose version-control step yielded no result, the
\* call is in or past the artifact path; when it has returned it fetched the
\* old artifact, then the new one, compared (old tree, new tree) and returned
\* exactly the comparator's output.
C5_FallbackReturnsComparison ==
  \A n \in Listed :
    (is_update(ChangeOf(n)) /\ gitRes[n] = Some(None)) =>
      /\ pc[n] \in {"git_ret", "art_entry", "returned", "raised"} \cup ArtifactPcs
      /\ pc[n] \notin {"git_ret", "art_entry"} => (Len(hist[n]) >= 2 /\ hist[n][2] = "artifact")
      /\ pc[n] = "returned" =>
           /\ hist[n] = FullHist
           /\ ~IsNone(cmpCall[n])
           /\ Val(cmpCall[n]).old = ArtDir(n, "old")
           /\ Val(cmpCall[n]).new = ArtDir(n, "new")
           /\ outcome[n] = Some(Ret(Val(cmpCall[n]).out))

\* C5's case: the version-control step found no tag, the artifact path ran and
\* get_diff returned a non-empty comparison
C5_Witness ==
  \E n \in Listed :
    /\ gitRes[n] = Some(None)
    /\ pc[n] = "returned"
    /\ hist[n] = FullHist
    /\ Val(outcome[n]).value # <<>>

\* the exceptions only the version-control step can raise
VcsOnlyErrors == {GitCloneError, GitDiffError, FileNotFoundError, CalledProcessError}

\* C6: an exception raised inside the version-control step reaches only the
\* handler of _try_git_strategy; once caught, the step's result is None and
\* get_diff is at or past the start of the artifact path; a get_diff call only
\* ever raises from the artifact path, never an error of the version-control
\* step.
C6_VcsErrorsAreCaught ==
  \A n \in Names :
    /\ pc[n] = "git_except" => (IsNone(outcome[n]) /\ IsNone(gitRes[n]) /\ ~IsNone(loc[n].exc))
    /\ ~IsNone(loc[n].caught) =>
         /\ gitRes[n] = Some(None)
         /\ IsNone(outcome[n])
         /\ pc[n] \in {"git_ret", "art_entry"}
    /\ pc[n] = "raised" =>
         /\ Len(hist[n]) >= 2 /\ hist[n][2] = "artifact"
         /\ Val(outcome[n]).exc \notin VcsOnlyErrors

\* C6's case: the clone failed, the handler caught it and get_diff has called
\* _artifact_fallback
C6_Witness ==
  \E n \in Listed :
    /\ loc[n].caught = Some(GitCloneError)
    /\ pc[n] = "art_entry"
    /\ IsNone(outcome[n])

\* C7 as stated: a call whose diff command failed between two resolved
\* references never enters the artifact path.
C7_DiffFailureNeverFallsBack ==
  \A n \in Names :
    loc[n].caught = Some(GitDiffError) => pc[n] # "art_entry"

\* C7 amended: the failure of the diff command between two resolved references
\* is caught like every other failure of the version-control step: the step's
\* result is None, get_diff goes on to the artifact path, and no get_diff call
\* ever raises the diff command's error.
C7_DiffFailureFallsBack ==
  \A n \in Names :
    /\ loc[n].exc = Some(GitDiffError) =>
         (pc[n] = "git_except" /\ ~IsNone(loc[n].old_tag) /\ ~IsNone(loc[n].new_tag))
    /\ loc[n].caught = Some(GitDiffError) =>
         /\ gitRes[n] = Some(None)
         /\ IsNone(outcome[n])
         /\ pc[n] \in {"git_ret", "art_entry"}
    /\ ~IsNone(outcome[n]) => Val(outcome[n]).exc # GitDiffError

\* C7's case: the diff command failed between two resolved references and
\* get_diff has called _artifact_fallback
C7_Witness ==
  \E n \in Listed :
    /\ loc[n].caught = Some(GitDiffError)
    /\ pc[n] = "art_entry"
    /\ gitRes[n] = Some(None)

\* C8: for an addition or a removal, get_diff never returns; it ends raising
\* the explicit error of _artifact_fallback, right after the two is_update
\* tests, with no artifact fetched, no directory created and nothing compared.
C8_NonUpdateAlwaysFails ==
  \A n \in Listed :
    ~is_update(ChangeOf(n)) =>
      /\ pc[n] \in {"idle", "git_entry", "git_ret", "art_entry", "raised", "done"}
      /\ pc[n] = "raised" =>
           (outcome[n] = Some(Raised(NotUpdateError)) /\ hist[n] = <<"vcs", "artifact">>)
      /\ NoArtifactDirs(n)
      /\ \A p \in disk : ~IsPrefix(RepoDir(n), p)
      /\ IsNone(cmpCall[n])

\* C8's case: get_diff on an addition has ended with the explicit error
C8_Witness ==
  \E n \in Listed :
    /\ is_addition(ChangeOf(n))
    /\ pc[n] = "raised"
    /\ outcome[n] = Some(Raised(NotUpdateError))

\* the errors the artifact path can raise for package n after the steps h
ArtifactErrors(n, h) ==
  IF h = <<"vcs", "artifact">> THEN {NotUpdateError}
  ELSE IF h = FullHist THEN {OSError}
  ELSE {HTTPError, ConnectionError, OSError, ReadError,
        NoArtifactError(n, IF h[Len(h)] = "fetch_old" THEN OldVersionStr ELSE NewVersionStr)}

\* C9: every step of a get_diff call happens at most once and in order (no
\* retry, no return to the version-control step); a call that returns after
\* the artifact path started has run all of it; a call that raised did so
\* from the artifact path, with an error of the step it had reached, and no
\* diff was produced.
C9_ArtifactFailureIsTerminal ==
  \A n \in Names :
    /\ Len(hist[n]) <= Len(FullHist) /\ hist[n] = SubSeq(FullHist, 1, Len(hist[n]))
    /\ (pc[n] = "returned" /\ Len(hist[n]) >= 2) => (hist[n] = FullHist /\ ~IsNone(cmpCall[n]))
    /\ pc[n] = "raised" =>
         /\ Len(hist[n]) >= 2
         /\ Val(outcome[n]).kind = "raise"
         /\ Val(outcome[n]).exc \in ArtifactErrors(n, hist[n])
         /\ IsNone(cmpCall[n])

\* C9's case: the download of the old artifact failed and get_diff raised
C9_Witness ==
  \E n \in Listed :
    /\ pc[n] = "raised"
    /\ outcome[n] = Some(Raised(ConnectionError))
    /\ hist[n] = <<"vcs", "artifact", "fetch_old">>

\* C10: every cleanup call leaves its tracked set empty, a cleanup call that
\* follows another cleanup call deletes nothing, and right after a cleanup
\* call the tracked set of the object cleaned is empty.
C10_CleanupTwice ==
  /\ \A i \in 1..Len(cleanupLog) :
       /\ cleanupLog[i].left = {}
       /\ cleanupLog[i].second => cleanupLog[i].deleted = 0
  /\ lastCall = "cleanup" =>
       IF mode = "parallel" THEN registry = {} ELSE tempDirs["shared"] = {}

\* C10's case: a cleanup that deleted directories, directly followed by a
\* second cleanup
C10_Witness ==
  /\ Len(cleanupLog) = 2
  /\ cleanupLog[1].deleted > 0
  /\ cleanupLog[2].second
  /\ lastCall = "cleanup"

WorkerDirs ==
  {RepoDir(n) : n \in Names} \cup {ArtDir(n, w) : n \in Names, w \in {"old", "new"}}

\* the directories whose deletion failed in some cleanup so far
FailedDeletions == UNION {cleanupLog[i].failed : i \in 1..Len(cleanupLog)}

C13_TimeoutKeepsTaskAndMapping ==
  /\ [](\A n \in timedOut :
         /\ n \in DOMAIN parDiffs
         /\ parDiffs[n] = ErrorText(TimeoutError)
         /\ IsErrorText(parDiffs[n])
         /\ procPc = "returned" => Val(parResult)[n] = ErrorText(TimeoutError))
  /\ [][/\ timedOut' # timedOut => (callVars' = callVars /\ queue' = queue)
        /\ ~IsNone(parResult) => parResult' = parResult]_vars

\* C13's case: a task that timed out went on, returned a diff after the
\* mapping had been returned, and the mapping still holds the error text
C13_Witness ==
  \E n \in timedOut :
    /\ procPc = "returned"
    /\ pc[n] = "returned"
    /\ Val(outcome[n]).kind = "return"
    /\ Val(parResult)[n] = ErrorText(TimeoutError)
    /\ Val(parResult)[n] # Val(outcome[n]).value

C15_CleanupSwallowsFailures ==
  [][Len(cleanupLog') > Len(cleanupLog) =>
       LET e == cleanupLog'[Len(cleanupLog')]
           tracked == IF e.who = "parallel" THEN registry ELSE tempDirs["shared"] IN
       /\ lastCall' = "cleanup" /\ clPc' = "idle"
       /\ IF e.who = "parallel" THEN registry' = {} ELSE tempDirs'["shared"] = {}
       /\ e.left = {}
       /\ e.failed \subseteq tracked
       /\ \A d \in tracked \ e.failed : \A q \in disk' : ~IsPrefix(d, q)
       /\ \A d \in e.failed : d \in disk']_vars

\* C15's case: a cleanup in which the deletion of one directory failed and
\* another directory was deleted, after which nothing is tracked
C15_Witness ==
  /\ lastCall = "cleanup" /\ clPc = "idle"
  /\ registry = {} /\ tempDirs["shared"] = {}
  /\ LET e == cleanupLog[Len(cleanupLog)] IN
       /\ e.who = "parallel"
       /\ e.failed # {} /\ e.deleted >= 1 /\ e.left = {}
       /\ e.failed \subseteq disk

\* the tag set of the repository whose listing is lines
TagsOf(lines) == {lines[i] : i \in 1..Len(lines)}

\* C16: when the references can be listed, _resolve_tag returns v if v is a
\* tag, otherwise "v" + v if that is a tag, otherwise none; it raises nothing.
C16_ExactThenPrefixed ==
  (callee = "_resolve_tag" /\ ~IsNone(result) /\ args.listing.ok) =>
    LET T == TagsOf(args.listing.lines)
        v == args.version
        r == Val(result) IN
    /\ ~r.raised
    /\ r.tag = (IF v \in T THEN Some(v)
                ELSE IF ("v" \o v) \in T THEN Some("v" \o v)
                ELSE None)

\* C16's case: both v and "v" + v are tags and the call returned v
C16_Witness ==
  /\ callee = "_resolve_tag" /\ ~IsNone(result) /\ args.listing.ok
  /\ {args.version, "v" \o args.version} \subseteq TagsOf(args.listing.lines)
  /\ Val(result).tag = Some(args.version)

\* C17: when listing the references fails, for whatever reason, _resolve_tag
\* returns none and raises nothing.
C17_ListingFailureIsNoMatch ==
  (callee = "_resolve_tag" /\ ~IsNone(result) /\ ~args.listing.ok) =>
    (~Val(result).raised /\ IsNone(Val(result).tag))

\* the positions of urls whose URL ends with suffix
UrlsEnding(urls, suffix) == {i \in 1..Len(urls) : EndsWith(urls[i], suffix)}

\* C18: _download_artifact chooses a .tar.gz URL of the list whenever there
\* is one, wherever it stands; otherwise the first .whl URL; and with neither
\* it raises the "No suitable artifact" error and requests no archive.
C18_SdistThenFirstWheel ==
  (callee = "_download_artifact" /\ ~IsNone(result)) =>
    LET urls == args.urls
        r == Val(result)
        sdists == UrlsEnding(urls, ".tar.gz")
        wheels == UrlsEnding(urls, ".whl") IN
    IF sdists # {}
    THEN ~r.raised /\ (\E i \in sdists : r.url = Some(urls[i])) /\ r.fetched = <<Val(r.url)>>
    ELSE IF wheels # {}
    THEN /\ ~r.raised
         /\ r.url = Some(urls[CHOOSE i \in wheels : \A j \in wheels : i <= j])
         /\ r.fetched = <<Val(r.url)>>
    ELSE /\ r.raised
         /\ r.exc = NoArtifactError(args.name, args.version)
         /\ r.exc.msg[1] = "No suitable artifact found for "
         /\ r.fetched = <<>>

\* C18's case: a .whl URL stands before the .tar.gz URL and the .tar.gz URL
\* was chosen
C18_Witness ==
  /\ callee = "_download_artifact" /\ ~IsNone(result)
  /\ \E i \in UrlsEnding(args.urls, ".whl") : \E j \in UrlsEnding(args.urls, ".tar.gz") :
       i < j /\ Val(result).url = Some(args.urls[j])

\* compare_directories has returned
Compared == callee = "compare_directories" /\ ~IsNone(result)

\* C19: for two trees that hold the same relative paths with identical
\* content, in particular for a tree compared with itself,
\* compare_directories returns the empty string.
C19_EqualTreesCompareEmpty ==
  (Compared /\ args.old = args.new) => Val(result) = <<>>

\* C19's case: a tree with two text files and a binary one, compared with
\* itself
C19_Witness ==
  /\ Compared /\ args.old = args.new
  /\ \E q, r \in DOMAIN args.old :
       /\ q # r
       /\ args.old[q].readable /\ IsNone(args.old[q].nul) /\ Len(args.old[q].lines) = 2
       /\ args.old[r].readable /\ IsNone(args.old[r].nul)
  /\ \E q \in DOMAIN args.old : ~IsNone(args.old[q].nul)
  /\ Val(result) = <<>>

\* the file has a null byte in its first 8192 bytes, or cannot be read
SkippedAsBinary(f) == ~f.readable \/ (~IsNone(f.nul) /\ Val(f.nul) < ChunkSize)

\* the files at relative path q, in whichever of the two trees has one
FilesAt(q) ==
  (IF q \in DOMAIN args.old THEN {args.old[q]} ELSE {})
    \cup (IF q \in DOMAIN args.new THEN {args.new[q]} ELSE {})

\* the text s names relative path q
Mentions(s, q) == \E i \in 1..Len(s) : s[i] = q

\* C20: a path whose file is binary on the old side (deleted or common) or on
\* the new side (added or common) is named nowhere in the output; and two
\* trees that differ only in binary files compare as the empty string.
C20_BinaryFilesContributeNothing ==
  Compared =>
    /\ \A q \in Paths :
         (\E f \in FilesAt(q) : SkippedAsBinary(f)) => ~Mentions(Val(result), q)
    /\ (\A q \in Paths :
          \/ (q \in DOMAIN args.old /\ q \in DOMAIN args.new /\ args.old[q] = args.new[q])
          \/ \A f \in FilesAt(q) : SkippedAsBinary(f))
        => Val(result) = <<>>

\* C20's case: the trees share an unchanged text file and differ in a binary
\* file of a common path, in a binary file deleted or added, and the output
\* is empty
C20_Witness ==
  /\ Compared
  /\ \E q \in DOMAIN args.old \cap DOMAIN args.new :
       /\ args.old[q] = args.new[q] /\ ~SkippedAsBinary(args.old[q])
  /\ \E q \in DOMAIN args.old \cap DOMAIN args.new :
       /\ args.old[q] # args.new[q]
       /\ SkippedAsBinary(args.old[q]) /\ SkippedAsBinary(args.new[q])
  /\ \E q \in Paths : q \notin (DOMAIN args.old \cap DOMAIN args.new)
                        /\ FilesAt(q) # {}
                        /\ \A f \in FilesAt(q) : SkippedAsBinary(f)
  /\ Val(result) = <<>>

\* the place of a relative path in sorted order
PathRank(q) == CHOOSE i \in 1..Len(RelPaths) : RelPaths[i] = q

\* the fragment that starts at piece i of the text s: <<group, path>> with
\* group 1 for a deletion, 2 for an addition, 3 for a modification, 0 when no
\* fragment starts there
FragmentAt(s, i) ==
  IF s[i] = "--- a/" THEN <<1, s[i + 1]>>
  ELSE IF s[i] = "+++ b/" THEN <<2, s[i + 1]>>
  ELSE IF s[i] = "--- " THEN <<3, s[i + 2]>>
  ELSE <<0, "">>

\* where the fragments of the text s start
FragmentStarts(s) == {i \in 1..Len(s) : FragmentAt(s, i)[1] # 0}

\* the paths of the fragments of group g in the text s
FragmentPaths(s, g) == {FragmentAt(s, i)[2] : i \in {j \in FragmentStarts(s) : FragmentAt(s, j)[1] = g}}

\* C21: in the output of compare_directories every deletion fragment comes
\* before every addition fragment and those before every modification
\* fragment; inside a group the fragments are in ascending order of relative
\* path; each fragment is for a path of its group; and the deleted, added and
\* common path sets are pairwise disjoint and cover the files of both trees.
C21_GroupsInOrderAndSorted ==
  Compared =>
    LET s == Val(result)
        D == deleted_files(args.old, args.new)
        A == added_files(args.old, args.new)
        M == common_files(args.old, args.new) IN
    /\ \A i, j \in FragmentStarts(s) :
         i < j =>
           \/ FragmentAt(s, i)[1] < FragmentAt(s, j)[1]
           \/ /\ FragmentAt(s, i)[1] = FragmentAt(s, j)[1]
              /\ PathRank(FragmentAt(s, i)[2]) < PathRank(FragmentAt(s, j)[2])
    /\ FragmentPaths(s, 1) \subseteq D
    /\ FragmentPaths(s, 2) \subseteq A
    /\ FragmentPaths(s, 3) \subseteq M
    /\ D \cap A = {} /\ D \cap M = {} /\ A \cap M = {}
    /\ D \cup A \cup M = DOMAIN args.old \cup DOMAIN args.new

\* C21's case: the output holds a deletion fragment, an addition fragment and
\* a modification fragment
C21_Witness ==
  /\ Compared
  /\ \E i, j, k \in FragmentStarts(Val(result)) :
       /\ i < j /\ j < k
       /\ FragmentAt(Val(result), i)[1] = 1
       /\ FragmentAt(Val(result), j)[1] = 2
       /\ FragmentAt(Val(result), k)[1] = 3

\* C22: process_requirements_diff never starts a retrieval for an addition or
\* a removal (no get_diff call, no step of it, no directory of that package);
\* and when the list holds no update (it is empty, or holds only additions
\* and removals) the call returns exactly "No dependency changes detected."
\* with nothing retrieved at all.
C22_NonUpdatesAreNotRetrieved ==
  /\ \A n \in Listed :
       ~is_update(ChangeOf(n)) =>
         /\ pc[n] = "idle" /\ hist[n] = <<>>
         /\ IsNone(outcome[n]) /\ IsNone(gitRes[n]) /\ IsNone(cmpCall[n])
         /\ NoArtifactDirs(n)
         /\ \A p \in disk : ~IsPrefix(RepoDir(n), p)
  /\ (orchPc = "returned" /\ \A i \in 1..Len(changes) : ~is_update(changes[i])) =>
       /\ orchResult = Some(NoChangesMsg)
       /\ orchDiffs = EmptyMap
       /\ disk = {}

\* C22's case: a list of one addition and one removal has been processed
C22_Witness ==
  /\ orchPc = "returned"
  /\ Len(changes) = 2
  /\ is_addition(changes[1]) /\ is_removal(changes[2])
  /\ orchIdx = 3
  /\ orchResult = Some(NoChangesMsg)

\* the interpreter ran its exit hooks in this step
ExitStep == orchPc # "exited" /\ orchPc' = "exited"

\* C23 as stated: the orchestrator's exit hook is registered from construction
\* on, and when the process is torn down no directory that its retriever
\* tracked is left on disk.
C23_ExitHookDeletesEveryTrackedDir ==
  [][ExitStep =>
       \A d \in tempDirs["shared"] : \A p \in disk' : ~IsPrefix(d, p)]_vars

\* C23 amended: the orchestrator's exit hook is registered from construction
\* on; at teardown it runs the retriever's cleanup whether or not the caller
\* ever called cleanup: nothing is tracked afterwards, and every directory
\* that was tracked is gone from disk except one whose deletion failed.
C23_ExitHookCleansUp ==
  /\ [](mode = "orchestrator" => Len(ExitHooks) = 1)
  /\ [][ExitStep =>
          /\ tempDirs'["shared"] = {}
          /\ Len(cleanupLog') = Len(cleanupLog) + 1
          /\ \A d \in tempDirs["shared"] :
               (\E p \in disk' : IsPrefix(d, p)) => d \in cleanupLog'[Len(cleanupLog')].failed
          /\ \A p \in disk \ disk' : \E d \in tempDirs["shared"] : IsPrefix(d, p)]_vars

\* C23's case: the process exited after a run in which cleanup was never
\* called, and its exit hook deleted the directories of the run
C23_Witness ==
  /\ orchPc = "exited"
  /\ Len(cleanupLog) = 1
  /\ cleanupLog[1].deleted >= 2
  /\ cleanupLog[1].failed = {}
  /\ disk = {}

\* parse has returned or raised
Parsed == callee = "parse" /\ ~IsNone(result)

\* the lines the DiffParser instance has been given, earlier and now
SeenLines == args.earlier \o args.diff

\* line is marker m, blanks, name n, an operator and a version
PinsVersion(line, m, n) ==
  \/ Len(line) = 4 /\ line[1] = m /\ line[2] = n
  \/ Len(line) = 5 /\ line[1] = m /\ line[2] = " " /\ line[3] = n

\* the version of the last line of lines that pins n under marker m, if any
LastPinned(lines, m, n) ==
  LET at == {i \in 1..Len(lines) : PinsVersion(lines[i], m, n)} IN
  IF at = {} THEN None
  ELSE LET i == CHOOSE j \in at : \A k \in at : k <= j IN
       Some(lines[i][Len(lines[i])])

\* C24: a parse that returns gives at most one change per name; the change of
\* a name holds as new_version the version of the last '+' line of that name
\* and as old_version the version of the last '-' line of that name, each
\* field untouched by lines of the other marker; so a name with '-' and '+'
\* lines is an update, with only '+' lines an addition, with only '-' lines a
\* removal, and a name with neither has no change.
C24_OneChangePerName ==
  (Parsed /\ ~Val(result).raised /\ ~parse(<<>>, args.earlier).raised) =>
    LET value == Val(result).value IN
    /\ \A i, j \in 1..Len(value) : value[i].name = value[j].name => i = j
    /\ \A i \in 1..Len(value) :
         /\ value[i].new_version = LastPinned(SeenLines, "+", value[i].name)
         /\ value[i].old_version = LastPinned(SeenLines, "-", value[i].name)
    /\ \A n \in {"django", "flask", "six"} :
         LET hasOld == ~IsNone(LastPinned(SeenLines, "-", n))
             hasNew == ~IsNone(LastPinned(SeenLines, "+", n)) IN
         /\ (hasOld \/ hasNew) <=> \E i \in 1..Len(value) : value[i].name = n
         /\ \A i \in 1..Len(value) :
              value[i].name = n =>
                /\ is_update(value[i]) <=> (hasOld /\ hasNew)
                /\ is_addition(value[i]) <=> (~hasOld /\ hasNew)
                /\ is_removal(value[i]) <=> (hasOld /\ ~hasNew)

\* C24's case: a fresh parser is given a '-' line and two '+' lines of one
\* name and returns one update that holds the version of the second '+' line
C24_Witness ==
  /\ Parsed /\ ~Val(result).raised
  /\ args.earlier = <<>>
  /\ args.diff = <<LineRemoved("django", OldVersionStr), LineAdded("django", NewVersionStr),
                   LineAddedSpaced("django", "3.0")>>
  /\ Val(result).value = <<[name |-> "django", old_version |-> Some(OldVersionStr),
                            new_version |-> Some("3.0")]>>

\* the positions of _try_git_strategy past its is_update test
GitPcs == {"git_meta", "git_mkdtemp", "git_clone", "git_old_tag", "git_new_tag", "git_diff",
           "git_except"}

\* C25: for an addition or a removal, _try_git_strategy is never past its
\* is_update test (no registry lookup, clone, tag listing or diff); the step
\* that runs it returns None at once and leaves the disk, the tracked sets and
\* the call's locals as they were.
C25_NonUpdateGitStepHasNoEffect ==
  /\ [](\A n \in Listed :
          ~is_update(ChangeOf(n)) =>
            /\ pc[n] \notin GitPcs
            /\ gitRes[n] \in {None, Some(None)}
            /\ IsNone(loc[n].git_url) /\ IsNone(loc[n].repo_path)
            /\ IsNone(loc[n].old_tag) /\ IsNone(loc[n].new_tag)
            /\ IsNone(loc[n].exc) /\ IsNone(loc[n].caught))
  /\ [][\A n \in Listed :
          (~is_update(ChangeOf(n)) /\ pc[n] = "git_entry" /\ pc'[n] # "git_entry") =>
            /\ pc'[n] = "git_ret" /\ gitRes'[n] = Some(None)
            /\ disk' = disk /\ tempDirs' = tempDirs /\ registry' = registry
            /\ loc' = loc /\ cmpCall' = cmpCall]_vars

\* C25's case: _try_git_strategy has returned None for a removal while the
\* directories of an earlier call are on disk and tracked
C25_Witness ==
  \E n \in Listed :
    /\ is_removal(ChangeOf(n))
    /\ pc[n] = "git_ret" /\ gitRes[n] = Some(None)
    /\ hist[n] = <<"vcs">>
    /\ disk # {} /\ tempDirs["shared"] # {}

\* a call of cleanup happens in this step
CleanupStep == Len(cleanupLog') = Len(cleanupLog) + 1

\* the directories left by a failed download, extraction or clone: the
\* extraction directory of a call that raised the step's error, the clone
\* directory of a call whose clone raised or whose version-control step ended
\* without result
FailedStepDirs ==
  {ArtDir(n, IF hist[n][Len(hist[n])] = "fetch_old" THEN "old" ELSE "new") :
     n \in {m \in Names : /\ pc[m] = "raised"
                          /\ Val(outcome[m]).exc \in {ConnectionError, ReadError}}}
    \cup {RepoDir(n) : n \in {m \in Names : \/ gitRes[m] = Some(None)
                                            \/ loc[m].exc \in {Some(GitCloneError),
                                                               Some(FileNotFoundError)}}}

\* C26 as stated: a directory left on disk by a failed download, extraction or
\* clone is gone from disk after the next cleanup.
C26_FailedStepDirsDeleted ==
  [][CleanupStep => \A d \in FailedStepDirs \cap tempDirs["shared"] : d \notin disk']_vars

\* C26 amended: while the clone, the download or the extraction runs, and when
\* one of them has failed, the directory created for it is on disk and
\* tracked; every directory on disk is tracked unless its deletion failed in
\* a cleanup; and a cleanup removes every tracked directory from disk except
\* one whose deletion fails, and tracks nothing afterwards.
C26_TrackedBeforeUseAndCleaned ==
  /\ [](\A n \in Names :
          /\ (pc[n] = "git_clone" \/ (pc[n] = "git_except" /\ ~IsNone(loc[n].repo_path))) =>
               (RepoDir(n) \in disk /\ RepoDir(n) \in tempDirs["shared"])
          /\ pc[n] \in {"art_download", "art_extract"} =>
               /\ loc[n].extract_path = Some(ArtDir(n, loc[n].which))
               /\ ArtDir(n, loc[n].which) \in disk
               /\ ArtDir(n, loc[n].which) \in tempDirs["shared"])
  /\ [](\A d \in FailedStepDirs \cap disk :
          \/ d \in tempDirs["shared"]
          \/ \E i \in 1..Len(cleanupLog) : d \in cleanupLog[i].failed)
  /\ [][CleanupStep =>
          /\ tempDirs'["shared"] = {}
          /\ \A d \in tempDirs["shared"] :
               d \in disk' => d \in cleanupLog'[Len(cleanupLog')].failed]_vars

\* C26's case: a download failed, get_diff raised, and the cleanup that
\* followed deleted the directory created for the download
C26_Witness ==
  \E n \in Listed :
    /\ pc[n] = "raised"
    /\ Val(outcome[n]).exc = ConnectionError
    /\ hist[n][Len(hist[n])] = "fetch_old"
    /\ lastCall = "cleanup"
    /\ Len(cleanupLog) = 1
    /\ cleanupLog[1].deleted >= 1 /\ cleanupLog[1].failed = {}
    /\ ArtDir(n, "old") \notin disk

\* the second half of _download_artifact has returned
Extracted2 == callee = "_download_artifact.extract" /\ ~IsNone(result)

\* the top-level directories of the archive
TopDirs == {e \in args.entries : e.is_dir}

\* C27: after a successful extraction _download_artifact returns the one
\* top-level directory when there is exactly one, and the extraction directory
\* itself when there is none or more than one; the archive file is gone, and
\* the extraction directory, every extracted entry and the directory returned
\* are on disk.
C27_RootChoiceAndArchiveRemoved ==
  Extracted2 =>
    /\ Cardinality(TopDirs) = 1 =>
         \E e \in TopDirs : Val(result).root = args.dir \o <<e.name>>
    /\ Cardinality(TopDirs) # 1 => Val(result).root = args.dir
    /\ args.dir \o <<"artifact">> \notin Val(result).disk
    /\ args.dir \in Val(result).disk
    /\ \A e \in args.entries : args.dir \o <<e.name>> \in Val(result).disk
    /\ Val(result).root \in Val(result).disk

\* C27's case: an archive that holds one top-level directory next to a
\* top-level file has been extracted and that directory is returned
C27_Witness ==
  /\ Extracted2
  /\ args.entries = {[name |-> "django-2.0", is_dir |-> TRUE],
                     [name |-> "README.md", is_dir |-> FALSE]}
  /\ Val(result).root = args.dir \o <<"django-2.0">>
  /\ Val(result).disk = {args.dir, args.dir \o <<"django-2.0">>, args.dir \o <<"README.md">>}

\* C28: _is_binary returns true exactly when the file cannot be opened or
\* read or one of its first 8192 bytes is a null byte, so null bytes at
\* offset 8192 and beyond have no influence; the call leaves the file and the
\* disk as they were.
C28_BinaryIffNulInFirstChunk ==
  /\ []((callee = "_is_binary" /\ ~IsNone(result)) =>
          (Val(result) <=> (\/ args.access # "ok"
                            \/ \E o \in args.nuls : o \in 0..(ChunkSize - 1))))
  /\ [][callee = "_is_binary" => UNCHANGED <<args, disk, tempDirs, registry>>]_vars

\* C28's case: a readable file whose only null bytes lie at offset 8192 and
\* beyond is classified as text
C28_Witness ==
  /\ callee = "_is_binary" /\ ~IsNone(result)
  /\ args.access = "ok"
  /\ args.nuls = {ChunkSize, 2 * ChunkSize}
  /\ Val(result) = FALSE

RECURSIVE SplitLines(_)
\* the lines of a text, split at its "\n" pieces; no line for the empty text
SplitLines(s) ==
  IF s = <<>> THEN <<>>
  ELSE LET ends == {i \in 1..Len(s) : s[i] = "\n"} IN
       IF ends = {} THEN <<s>>
       ELSE LET i == CHOOSE j \in ends : \A k \in ends : j <= k IN
            <<SubSeq(s, 1, i - 1)>> \o SplitLines(SubSeq(s, i + 1, Len(s)))

\* out is line without its trailing whitespace
IsStrippedOf(out, line) ==
  /\ IsPrefix(out, line)
  /\ \A j \in (Len(out) + 1)..Len(line) : line[j] \in Whitespace
  /\ out = <<>> \/ out[Len(out)] \notin Whitespace

\* at line k of L stand the two headers h1, h2 and then exactly one line per
\* line of file f, in order, each the marker followed by the line's content
WholeFileFragmentAt(L, k, h1, h2, marker, f) ==
  /\ k + 1 + Len(f.lines) <= Len(L)
  /\ L[k] = h1 /\ L[k + 1] = h2
  /\ \A i \in 1..Len(f.lines) :
       /\ L[k + 1 + i][1] = marker
       /\ IsStrippedOf(Tail(L[k + 1 + i]), f.lines[i])
  /\ k + 2 + Len(f.lines) <= Len(L) => L[k + 2 + Len(f.lines)][1] \notin {"-", "+", " "}

\* C29: for every non-binary file that only the old tree holds, the output has
\* exactly one fragment '--- a/<path>', '+++ /dev/null' followed by one
\* '-' line per line of the file, in file order; for every non-binary file
\* that only the new tree holds, exactly one fragment '--- /dev/null',
\* '+++ b/<path>' followed by one '+' line per line of the file.
C29_WholeFileFragments ==
  Compared =>
    LET L == SplitLines(Val(result)) IN
    /\ \A q \in deleted_files(args.old, args.new) :
         ~SkippedAsBinary(args.old[q]) =>
           /\ Cardinality({k \in 1..Len(L) : L[k] = <<"--- a/", q>>}) = 1
           /\ \E k \in 1..Len(L) :
                WholeFileFragmentAt(L, k, <<"--- a/", q>>, <<"+++ /dev/null">>, "-", args.old[q])
    /\ \A q \in added_files(args.old, args.new) :
         ~SkippedAsBinary(args.new[q]) =>
           /\ Cardinality({k \in 1..Len(L) : L[k] = <<"+++ b/", q>>}) = 1
           /\ \E k \in 1..Len(L) :
                WholeFileFragmentAt(L, k, <<"--- /dev/null">>, <<"+++ b/", q>>, "+", args.new[q])

\* C29's case: a text file of two lines was deleted and another one added,
\* and the output is the two fragments
C29_Witness ==
  /\ Compared
  /\ args.old = [q \in {RelPaths[1]} |-> TextFile(<<LineImport, LineAssign>>)]
  /\ args.new = [q \in {RelPaths[2]} |-> TextFile(<<LineAssign, LinePrint>>)]
  /\ SplitLines(Val(result)) =
       << <<"--- a/", RelPaths[1]>>, <<"+++ /dev/null">>, <<"-", "import os">>, <<"-", "x = 1">>,
          <<"--- /dev/null">>, <<"+++ b/", RelPaths[2]>>, <<"+", "x = 1">>, <<"+", "print(x)">> >>

\* C30: for a path that both trees hold with text on both sides, the output
\* has a fragment for the path exactly when the two line sequences differ;
\* the fragment starts with '--- a/<path>', '+++ b/<path>' and an '@@' hunk
\* header followed by at least one changed line; a path whose two files hold
\* the same lines is named nowhere in the output.
C30_FragmentIffLinesDiffer ==
  Compared =>
    LET L == SplitLines(Val(result)) IN
    \A q \in common_files(args.old, args.new) :
      (~SkippedAsBinary(args.old[q]) /\ ~SkippedAsBinary(args.new[q])) =>
        LET at == {k \in 1..Len(L) : L[k] = <<"--- ", "a/", q>>} IN
        /\ at # {} <=> args.old[q].lines # args.new[q].lines
        /\ Cardinality(at) <= 1
        /\ \A k \in at :
             /\ k + 3 <= Len(L)
             /\ L[k + 1] = <<"+++ ", "b/", q>>
             /\ L[k + 2][1] = "@@ -"
             /\ \E j \in (k + 3)..Len(L) :
                  /\ L[j][1] \in {"-", "+"}
                  /\ \A i \in (k + 3)..j : L[i][1] \in {"-", "+", " "}
        /\ args.old[q].lines = args.new[q].lines => ~Mentions(Val(result), q)

\* C30's case: of two common text files one changed and one did not; the
\* output is the fragment of the changed one
C30_Witness ==
  /\ Compared
  /\ args.old = [q \in {RelPaths[1], RelPaths[2]} |->
                   IF q = RelPaths[1] THEN TextFile(<<LineImport, LineAssign>>)
                                      ELSE TextFile(<<LineImport>>)]
  /\ args.new = [q \in {RelPaths[1], RelPaths[2]} |->
                   IF q = RelPaths[1] THEN TextFile(<<LineAssign, LinePrint>>)
                                      ELSE TextFile(<<LineImport>>)]
  /\ LET L == SplitLines(Val(result)) IN
     /\ L[1] = <<"--- ", "a/", RelPaths[1]>>
     /\ L[2] = <<"+++ ", "b/", RelPaths[1]>>
     /\ L[3] = <<"@@ -", "1,2", " +", "1,2", " @@">>
     /\ ~Mentions(Val(result), RelPaths[2])

\* C31: DiffParser.parse never raises: whatever lines the diff holds (file
\* headers, hunk headers, context, blank or marker-only added and removed
\* lines, unparseable text), the call returns.
C31_ParseNeverRaises ==
  Parsed => ~Val(result).raised

\* _format_header has returned
Formatted == callee = "_format_header" /\ ~IsNone(result)

\* the text has exactly three lines, each LineWidth characters long
ThreeFullLines(text) ==
  /\ Len(SplitLines(text)) = 3
  /\ \A i \in 1..3 : Len(SplitLines(text)[i]) = LineWidth

\* C32 as stated: for every package name the header is three lines of 80
\* characters each.
C32_HeaderIsThreeLinesOf80 ==
  Formatted => ThreeFullLines(Val(result))

\* C32 amended: for every package name of at most 60 characters, so that the
\* title with its two blanks fits in 80 characters, the header is three lines
\* of 80 characters each: the separator, the title between runs of '=' whose
\* lengths differ by at most one, the separator.
C32_HeaderIsThreeLinesOf80IfTitleFits ==
  (Formatted /\ Len(Title(args.name)) <= LineWidth) =>
    /\ ThreeFullLines(Val(result))
    /\ LET L == SplitLines(Val(result))
           left == (LineWidth - Len(Title(args.name))) \div 2 IN
       /\ L[1] = Repeat("=", LineWidth) /\ L[3] = L[1]
       /\ SubSeq(L[2], left + 1, left + Len(Title(args.name))) = Title(args.name)
       /\ \A i \in (1..left) \cup ((left + Len(Title(args.name)) + 1)..LineWidth) : L[2][i] = "="

\* C32's case: a name of 13 characters, whose title leaves an odd number of
\* columns to fill
C32_Witness ==
  /\ Formatted
  /\ args.name = Repeat("a", 13)
  /\ ThreeFullLines(Val(result))
  /\ SplitLines(Val(result))[2][24] = " " /\ SplitLines(Val(result))[2][25] = "D"

\* the retrieval tasks executing at this moment
Executing == {n \in Names : Active(n)}

OwnEntry(n) ==
  IF n \in timedOut THEN ErrorText(TimeoutError)
  ELSE IF Val(outcome[n]).kind = "return" THEN Val(outcome[n]).value
  ELSE ErrorText(Val(outcome[n]).exc)

EmptyVcsDiff(n) == gitRes[n] = Some(Some(<<>>))

\* C36: a `git diff` that succeeds always gives the version-control step a
\* result, the empty text included; after an empty result get_diff returns the
\* empty string and the artifact path is never started (no artifact directory,
\* no comparison); a call is in the artifact path only after "no result".
C36_EmptyDiffIsFinal ==
  /\ [][\A n \in Names :
          (pc[n] = "git_diff" /\ pc'[n] = "git_ret") => ~IsNone(Val(gitRes'[n]))]_vars
  /\ [](\A n \in Names :
          /\ EmptyVcsDiff(n) =>
               /\ hist[n] = <<"vcs">>
               /\ IsNone(cmpCall[n])
               /\ NoArtifactDirs(n)
               /\ pc[n] \in {"git_ret", "returned"}
               /\ pc[n] = "returned" => outcome[n] = Some(Ret(<<>>))
          /\ pc[n] \in ArtifactPcs \cup {"art_entry"} => gitRes[n] = Some(None))

\* C36's case: the version-control step gave the empty diff and get_diff has
\* returned the empty string
C36_Witness ==
  \E n \in Listed :
    /\ is_update(ChangeOf(n))
    /\ EmptyVcsDiff(n)
    /\ pc[n] = "returned"
    /\ outcome[n] = Some(Ret(<<>>))
    /\ RepoDir(n) \in disk

\* C37: every call of process_changes_parallel comes back with a mapping
\* that has an entry for every package, whether or not the tasks ever
\* complete; the results are taken one package at a time in submission order,
\* each after a wait that ends with the task or with the timeout.
C37_CallReturnsMapping ==
  /\ (procPc = "submit") ~> (procPc = "returned" /\ DOMAIN Val(parResult) = Listed)
  /\ [][(procPc = "collect" /\ colIdx' # colIdx) =>
          /\ colIdx' = colIdx + 1
          /\ DOMAIN parDiffs' = {changes[i].name : i \in 1..colIdx}
          /\ \/ Finished(changes[colIdx].name)
             \/ parDiffs'[changes[colIdx].name] = ErrorText(TimeoutError)]_vars

\* C37's case: the call has returned the mapping of two packages although the
\* task of the first is still running and the task of the second never started
C37_Witness ==
  /\ procPc = "returned"
  /\ Len(changes) = NumPkgs
  /\ Active(changes[1].name)
  /\ pc[changes[2].name] = "queued"
  /\ DOMAIN Val(parResult) = Listed
  /\ \A n \in Listed : Val(parResult)[n] = ErrorText(TimeoutError)

\* ParallelRetriever.cleanup() has been called and has returned
CleanedUp == poolShutdown /\ clPc = "idle"

\* C38: once cleanup() has returned, a process_changes_parallel call with a
\* non-empty list fails at its first submission and returns no mapping; no
\* work item is queued, no task starts or runs, and no directory is created,
\* tracked or registered.
C38_NoWorkAfterCleanup ==
  /\ [](CleanedUp => (queue = <<>> /\ \A n \in Names : ~Active(n) /\ pc[n] # "queued"))
  /\ [][CleanedUp =>
          /\ pc' = pc /\ queue' = queue
          /\ disk' \subseteq disk /\ registry' \subseteq registry /\ tempDirs' = tempDirs
          /\ (procPc = "submit" /\ changes # <<>>) =>
               (procPc' = "raised" /\ parResult' = parResult /\ subIdx' = 1)]_vars

\* C38's case: cleanup() ran first, then process_changes_parallel was called
\* with two changes and has failed at submission
C38_Witness ==
  /\ CleanedUp
  /\ cleanupLog # <<>>
  /\ lastCall = "process"
  /\ Len(changes) = NumPkgs
  /\ procPc = "raised"
  /\ IsNone(parResult)

\* what the earlier call of parse left in the instance
RecordedEarlier == parse(<<>>, args.earlier).rec

\* the value v, unless lines pin a version of n under marker m
Merged(v, lines, m, n) ==
  IF IsNone(LastPinned(lines, m, n)) THEN v ELSE LastPinned(lines, m, n)

\* C39: the list a later parse on the same instance returns starts with one
\* change for every name recorded by the earlier call, in the same order, each
\* with its earlier versions unless the current input pins new ones (merged by
\* name); the changes of names new in the current input follow. The
\* orchestrator keeps one DiffParser, so the change list of its second
\* process_requirements_diff holds the changes of the first input too.
C39_ParserAccumulates ==
  (Parsed /\ ~Val(result).raised) =>
    LET value == Val(result).value
        before == RecordedEarlier IN
    /\ Len(value) >= Len(before)
    /\ \A i \in 1..Len(before) :
         /\ value[i].name = before[i].name
         /\ value[i].old_version = Merged(before[i].old_version, args.diff, "-", before[i].name)
         /\ value[i].new_version = Merged(before[i].new_version, args.diff, "+", before[i].name)
    /\ \A i \in (Len(before) + 1)..Len(value) :
         /\ ~Recorded(before, value[i].name)
         /\ value[i].old_version = LastPinned(args.diff, "-", value[i].name)
         /\ value[i].new_version = LastPinned(args.diff, "+", value[i].name)

\* C39's case: the first input updated flask, the second input updates django
\* only, and the second call returns both updates
C39_Witness ==
  /\ Parsed /\ ~Val(result).raised
  /\ args.earlier = <<LineAdded("flask", NewVersionStr), LineRemoved("flask", OldVersionStr)>>
  /\ args.diff = <<LineRemoved("django", OldVersionStr), LineAdded("django", NewVersionStr)>>
  /\ Val(result).value = <<Update("flask"),
                           Update("django")>>

\* the status changes of the claim: pending -> loading -> done or error
ForwardMoves == {<<"pending", "loading">>, <<"loading", "done">>, <<"loading", "error">>}

\* C40 as stated: a package's status only moves pending -> loading -> done or
\* error.
C40_StatusOnlyMovesForward ==
  [][\A n \in Listed :
       tuiStatus'[n] # tuiStatus[n] => <<tuiStatus[n], tuiStatus'[n]>> \in ForwardMoves]_vars

\* the status on_worker_state_changed gives package n when its worker ends in
\* the state the step handles: the worker failed, or its result is a text
StatusAfterWorker(n) ==
  IF pc[n] = "queued" THEN "error"
  ELSE IF Val(outcome[n]).kind = "raise" THEN "error"
  ELSE IF Val(outcome[n]).value # <<>> /\ Val(outcome[n]).value[1] \in {"Error:", "Error: "}
  THEN "error"
  ELSE "done"

\* C40 amended: a status is "pending" until the app is mounted and changes
\* only when a fetch of the package is started, on mount and on every refresh
\* (then it becomes "loading", also from "done" or "error"), or when a fetch
\* worker of the package finishes (then it becomes "error" if the result text
\* starts with "Error:" or the worker itself failed, "done" otherwise); a
\* package with no fetch worker outstanding is never in "loading".
C40_StatusFollowsFetches ==
  /\ [][\A n \in Listed :
          /\ tuiStatus'[n] # tuiStatus[n] => tuiWorkers'[n] # tuiWorkers[n]
          /\ tuiWorkers'[n] > tuiWorkers[n] => tuiStatus'[n] = "loading"
          /\ tuiWorkers'[n] < tuiWorkers[n] => tuiStatus'[n] = StatusAfterWorker(n)]_vars
  /\ [](\A n \in Listed :
          /\ tuiPc = "idle" => tuiStatus[n] = "pending"
          /\ tuiPc # "idle" => tuiStatus[n] # "pending"
          /\ (tuiPc # "idle" /\ tuiWorkers[n] = 0) => tuiStatus[n] \in {"done", "error"})

\* C40's case: the first fetch of a package left its clone and was handled,
\* and a refresh has put the package back to "loading" with a new worker
C40_Witness ==
  \E n \in Listed :
    /\ tuiPc = "mounted"
    /\ RepoDir(n) \in disk
    /\ pc[n] = "queued"
    /\ tuiWorkers[n] = 1
    /\ tuiStatus[n] = "loading"
    /\ tuiDiffs = EmptyMap

\* ------------------------------------------------------------ specification
Next ==
  \/ \E n \in Names : GetDiffStep(n)
  \/ \E n \in Names : DirectCall(n)
  \/ Cleanup
  \/ OrchProcess \/ OrchSkip \/ OrchCall \/ OrchStore \/ OrchExcept \/ OrchReport
  \/ OrchInterrupt \/ ProcessExit
  \/ ParProcess \/ ParSubmit \/ ParBeginCollect \/ WorkerStart
  \/ ParCollect \/ ParCollectTimeout \/ ParReturn
  \/ ParCleanupBegin \/ ParCleanupFinish

Spec == Init /\ [][Next]_vars

\* a client that calls HybridRetriever.get_diff and cleanup itself
NextDirect ==
  \/ \E n \in Names : GetDiffStep(n)
  \/ \E n \in Names : DirectCall(n)
  \/ Cleanup

InitDirect == Init /\ mode = "direct"

SpecDirect == InitDirect /\ [][NextDirect]_vars

\* a run of DependencyDiffOrchestrator
NextOrch ==
  \/ \E n \in Names : GetDiffStep(n)
  \/ Cleanup
  \/ OrchProcess \/ OrchSkip \/ OrchCall \/ OrchStore \/ OrchExcept \/ OrchReport
  \/ OrchInterrupt \/ ProcessExit

InitOrch == Init /\ mode = "orchestrator"

SpecOrch == InitOrch /\ [][NextOrch]_vars

\* a run of ParallelRetriever
NextPar ==
  \/ \E n \in Names : GetDiffStep(n)
  \/ ParProcess \/ ParSubmit \/ ParBeginCollect \/ WorkerStart
  \/ ParCollect \/ ParCollectTimeout \/ ParReturn
  \/ ParCleanupBegin \/ ParCleanupFinish

InitPar == Init /\ mode = "parallel"

SpecPar == InitPar /\ [][NextPar]_vars

\* one call of process_changes_parallel on a retriever nobody cleans up
NextParCall ==
  \/ \E n \in Names : GetDiffStep(n)
  \/ ParProcess \/ ParSubmit \/ ParBeginCollect \/ WorkerStart
  \/ ParCollect \/ ParCollectTimeout \/ ParReturn

\* ParallelRetriever(), whose pool has the default size: the tasks of all
\* packages run at the same time
InitParDefault ==
  /\ mode = "parallel"
  /\ changes \in ChangeLists
  /\ ctorTakesTracker \in BOOLEAN
  /\ maxWorkers = None
  /\ Constructed
  /\ NoCall

SpecParDefault == InitParDefault /\ [][NextParCall]_vars

\* the thread that called process_changes_parallel: it is never held up for
\* good, since submit does not block and future.result(timeout=300) returns
\* or raises within the timeout; the tasks themselves may stop anywhere
MainThreadStep ==
  ParSubmit \/ ParBeginCollect \/ ParCollect \/ ParCollectTimeout \/ ParReturn

InitParLive == InitPar

SpecParLive == InitParLive /\ [][NextParCall]_vars /\ WF_vars(MainThreadStep)

\* _resolve_tag applied to a listing and a version
NextResolveTag == ApplyResolveTag

SpecResolveTag == InitResolveTag /\ [][NextResolveTag]_vars

\* _download_artifact's choice applied to a list of URLs
NextSelectArtifact == ApplySelectArtifact

SpecSelectArtifact == InitSelectArtifact /\ [][NextSelectArtifact]_vars

\* compare_directories applied to two trees
NextCompare == ApplyCompare

SpecCompare == InitCompare /\ [][NextCompare]_vars

\* the extraction half of _download_artifact applied to an archive
NextExtract == ApplyExtract

SpecExtract == InitExtract /\ [][NextExtract]_vars

\* _is_binary applied to a file
NextIsBinary == ApplyIsBinary

SpecIsBinary == InitIsBinary /\ [][NextIsBinary]_vars

\* _format_header applied to a package name
NextFormatHeader == ApplyFormatHeader

SpecFormatHeader == InitFormatHeader /\ [][NextFormatHeader]_vars

\* DiffParser.parse applied to a diff
NextParse == ApplyParse

SpecParse == InitParse /\ [][NextParse]_vars

\* a run of DepDiffApp
NextTui ==
  \/ \E n \in Names : GetDiffStep(n)
  \/ TuiMount \/ (\E n \in Names : TuiTaskStart(n)) \/ (\E n \in Names : TuiTaskDone(n))
  \/ TuiQuit \/ ParCleanupPass \/ ParCleanupClear \/ TuiExit

InitTui ==
  /\ mode = "tui"
  /\ changes \in ChangeLists
  /\ ctorTakesTracker \in BOOLEAN
  /\ maxWorkers = Some(MaxWorkers)
  /\ Constructed
  /\ NoCall

SpecTui == InitTui /\ [][NextTui]_vars

\* a run of DepDiffApp on one package in which the user also refreshes and
\* workers may fail
NextTuiRefresh ==
  \/ NextTui
  \/ TuiRefresh
  \/ \E n \in Names : TuiWorkerError(n)

InitTuiRefresh == InitTui /\ Len(changes) <= 1

SpecTuiRefresh == InitTuiRefresh /\ [][NextTuiRefresh]_vars

====
